---- MODULE Spec2Model ----
(***************************************************************************)
(* Model of the analytics of the SPY dashboard: the market-structure       *)
(* component (swing points, break of structure, support/resistance,       *)
(* volume profile, options walls and max pain, rolling correlation,       *)
(* stochastic oscillator) and the dealer-gamma metrics of the options     *)
(* utilities.                                                              *)
(*                                                                         *)
(* Numbers.  The source computes in IEEE doubles.  The model computes with *)
(* integers and keeps every quotient as an explicit fraction or in a named *)
(* fixed-point unit; each definition says which.  Inputs are drawn from    *)
(* values on which the double arithmetic of the source is exact wherever a *)
(* comparison decides the result.                                          *)
(*                                                                         *)
(* Indices.  Sequences are 1-based here and 0-based in the source; every   *)
(* `index` field holds the 0-based index of the source.                    *)
(***************************************************************************)
EXTENDS Integers, Sequences, FiniteSets, TLC

VARIABLES
    priceData,       \* prop priceData of MarketStructureAnalysis
    currentPrice,    \* prop currentPrice (0 models null)
    processedData,   \* useMemo processedData
    swingAnalysis,   \* useMemo swingAnalysis
    bosAnalysis,     \* useMemo bosAnalysis
    srLevels,        \* useMemo srLevels
    profileData,     \* the bars handed to calculateVolumeProfile
    volumeProfile,   \* useMemo volumeProfile
    optionsData,     \* prop optionsData of MarketStructureAnalysis
    optionsWalls,    \* useMemo optionsWalls
    dealerMetrics,   \* calculateDealerMetrics(optionsData, currentPrice)
    corrSeries,      \* the {timestamp, spy, vix} rows handed to the correlation functions
    correlationData, \* calculateRollingCorrelation(corrSeries, window)
    correlation,     \* calculateCorrelation(spy column, vix column)
    stochBars,       \* the {high, low, close} bars of the stochastic window
    stochastic,      \* calculateStochastic(highs, lows, closes, period)
    predInput,       \* the arguments of the last generatePrediction call
    prediction,      \* generatePrediction(volMetrics, dealerMetrics, spy, skew)
    rsiPrices,       \* the price series handed to calculateRSI
    rsi,             \* calculateRSI(rsiPrices, period)
    greekInput,      \* the arguments S, K, T, r, sigma of calculateGreeks
    greeks,          \* calculateGreeks of greekInput for the call and for the put
    spyPrice,        \* useState spyPrice of SPYDashboard
    vixPrice,        \* useState vixPrice of SPYDashboard
    skewValue,       \* useState skewValue of SPYDashboard
    apiStatus,       \* useState apiStatus of SPYDashboard
    proxyResponses,  \* what /api/spy, /api/vix, /api/skew answered in the latest poll
    pc               \* which group of hooks is rendered, and how far

structureVars == <<priceData, currentPrice, processedData, swingAnalysis,
                   bosAnalysis, srLevels>>
volumeVars == <<profileData, volumeProfile>>
wallVars == <<optionsData, optionsWalls>>
dealerVars == <<dealerMetrics>>
corrVars == <<corrSeries, correlationData, correlation>>
stochVars == <<stochBars, stochastic>>
predVars == <<predInput, prediction>>
rsiVars == <<rsiPrices, rsi>>
greekVars == <<greekInput, greeks>>
fetchVars == <<spyPrice, vixPrice, skewValue, apiStatus, proxyResponses>>

vars == <<structureVars, volumeVars, wallVars, dealerVars, corrVars, stochVars,
          predVars, rsiVars, greekVars, fetchVars, pc>>

----------------------------------------------------------------------------
(* Bounds of the model *)

MaxBars == 9            \* longest bar series of the structure specification
StrengthScale == 10000  \* fixed-point units per 1 (percent) of a strength
RiseLen == 60           \* rising bars of the end-to-end scenario
FlatLen == 10           \* flat bars of the end-to-end scenario
MaxStep == 3            \* largest per-bar rise of the scenario
MaxDrop == 2            \* largest distance of the flat level from the last rise
MaxProfileBars == 3     \* longest bar series of the volume-profile specification
MaxVolume == 2          \* largest volume of a bar
MaxContracts == 3       \* longest options chain
MaxOI == 2              \* largest open interest of a contract
RandDen == 8            \* Math.random() takes the values 0/RandDen .. (RandDen-1)/RandDen
CorrWindow == 3         \* the window argument of calculateRollingCorrelation
MaxCorrLen == 5         \* longest series of the correlation specification
MaxCorrValue == 2       \* largest magnitude of a value of the correlation series
StochPeriod == 2        \* the period argument of calculateStochastic
MaxStochBars == 3       \* longest series of the stochastic specification
MaxStochPrice == 3      \* largest price of the stochastic specification
MaxClock == 1           \* latest reading of the clock by generatePrediction
RsiPeriod == 3          \* the period argument of calculateRSI
MaxRsiLen == 6          \* longest series of the RSI specification
MaxRsiPrice == 2        \* largest price of the RSI specification
GreekScale == 10000     \* fixed-point units per 1 of the Greeks arithmetic
ExpTerms == 12          \* terms of the series that stands for Math.exp
LogTerms == 4           \* terms of the series that stands for Math.log
ZigzagLen == 12         \* longest bar series of the zigzag specification
LadderLen == 18         \* longest bar series of the ladder specification

\* closes of the structure specification: 500, 502 and 504 are pairwise
\* closer than 0.5% except 500 and 504
Closes == {500, 501, 502, 504}
SpotPrices == {502}

----------------------------------------------------------------------------
(* Helpers standing for built-ins of the language *)

Null == [kind |-> "null"]

At(s, i) == s[i + 1]

Abs(x) == IF x < 0 THEN -x ELSE x

RECURSIVE MinOf(_)
MinOf(s) == IF Len(s) = 1 THEN s[1]
            ELSE LET m == MinOf(Tail(s)) IN IF s[1] < m THEN s[1] ELSE m

RECURSIVE MaxOf(_)
MaxOf(s) == IF Len(s) = 1 THEN s[1]
            ELSE LET m == MaxOf(Tail(s)) IN IF s[1] > m THEN s[1] ELSE m

\* Array.prototype.slice(-k)
SliceLast(s, k) == IF Len(s) <= k THEN s ELSE SubSeq(s, Len(s) - k + 1, Len(s))

\* Array.prototype.slice(0, k)
SliceFirst(s, k) == IF Len(s) <= k THEN s ELSE SubSeq(s, 1, k)

\* Array.prototype.find: position of the first element satisfying P, 0 if none
Find(s, P(_)) ==
    LET hits == {k \in 1..Len(s) : P(s[k])}
    IN  IF hits = {} THEN 0 ELSE CHOOSE k \in hits : \A j \in hits : k <= j

\* the elements of a finite set of integers in descending order
RECURSIVE Descending(_)
Descending(S) ==
    IF S = {} THEN <<>>
    ELSE LET m == CHOOSE x \in S : \A y \in S : y <= x
         IN  <<m>> \o Descending(S \ {m})

RECURSIVE Reverse(_)
Reverse(s) == IF s = <<>> THEN <<>> ELSE Append(Reverse(Tail(s)), s[1])

RECURSIVE ConcatAll(_)
ConcatAll(ss) == IF ss = <<>> THEN <<>> ELSE ss[1] \o ConcatAll(Tail(ss))

\* Array.prototype.sort((a, b) => key(b) - key(a)): descending by key and
\* stable, i.e. the elements of each key in their original order, the larger
\* keys first.
SortDesc(s, key(_)) ==
    LET keys == Descending({key(s[k]) : k \in 1..Len(s)})
    IN  ConcatAll([j \in 1..Len(keys) |-> SelectSeq(s, LAMBDA x : key(x) = keys[j])])

\* Array.prototype.sort((a, b) => key(a) - key(b)): ascending by key, stable
SortAsc(s, key(_)) ==
    LET keys == Reverse(Descending({key(s[k]) : k \in 1..Len(s)}))
    IN  ConcatAll([j \in 1..Len(keys) |-> SelectSeq(s, LAMBDA x : key(x) = keys[j])])

----------------------------------------------------------------------------
(* Market structure detection *)

\* One element of processedData: close falls back to currentPrice, then 595,
\* when the point has none (0 models a missing close).
ProcessPoint(point, index, spot) ==
    [close |-> IF point.close # 0 THEN point.close
               ELSE IF spot # 0 THEN spot ELSE 595,
     timestamp |-> point.timestamp]

ProcessData(data, spot) ==
    [k \in 1..Len(data) |-> ProcessPoint(data[k], k - 1, spot)]

\* the 5-bar window around index i
WindowPrices(data, i) ==
    <<At(data, i - 2).close, At(data, i - 1).close, At(data, i).close,
      At(data, i + 1).close, At(data, i + 2).close>>

WindowOthers(prices) == <<prices[1], prices[2], prices[4], prices[5]>>

\* IsSwingHigh with non-strict dominance
IsSwingHigh_NonStrict(prices) ==
    /\ prices[3] >= prices[1] /\ prices[3] >= prices[2]
    /\ prices[3] >= prices[4] /\ prices[3] >= prices[5]

IsSwingHigh(prices) ==
    /\ prices[3] > prices[1] /\ prices[3] > prices[2]
    /\ prices[3] > prices[4] /\ prices[3] > prices[5]

\* IsSwingLow against the two adjacent bars only
IsSwingLow_Adjacent(prices) == prices[3] < prices[2] /\ prices[3] < prices[4]

IsSwingLow(prices) ==
    /\ prices[3] < prices[1] /\ prices[3] < prices[2]
    /\ prices[3] < prices[4] /\ prices[3] < prices[5]

\* strength of a swing in percent, in units of 1/StrengthScale, truncated
SwingHighAt(data, i) ==
    LET prices == WindowPrices(data, i) IN
    [index |-> i, price |-> prices[3], timestamp |-> At(data, i).timestamp,
     strength |-> ((prices[3] - MinOf(WindowOthers(prices))) * 100 * StrengthScale)
                      \div prices[3]]

SwingLowAt(data, i) ==
    LET prices == WindowPrices(data, i) IN
    [index |-> i, price |-> prices[3], timestamp |-> At(data, i).timestamp,
     strength |-> ((MaxOf(WindowOthers(prices)) - prices[3]) * 100 * StrengthScale)
                      \div prices[3]]

\* the loop for (i = 2; i < data.length - 2; i++), from index i on
RECURSIVE SwingHighsFrom(_, _)
SwingHighsFrom(data, i) ==
    IF i >= Len(data) - 2 THEN <<>>
    ELSE (IF IsSwingHigh(WindowPrices(data, i)) THEN <<SwingHighAt(data, i)>> ELSE <<>>)
         \o SwingHighsFrom(data, i + 1)

RECURSIVE SwingLowsFrom(_, _)
SwingLowsFrom(data, i) ==
    IF i >= Len(data) - 2 THEN <<>>
    ELSE (IF IsSwingLow(WindowPrices(data, i)) THEN <<SwingLowAt(data, i)>> ELSE <<>>)
         \o SwingLowsFrom(data, i + 1)

\* the trend read from the two earliest swing highs and lows
CurrentTrend_FirstTwo(highs, lows) ==
    IF Len(highs) >= 2 /\ Len(lows) >= 2
    THEN LET higherHighs == highs[2].price > highs[1].price
             higherLows == lows[2].price > lows[1].price
             lowerHighs == highs[2].price < highs[1].price
             lowerLows == lows[2].price < lows[1].price
         IN  IF higherHighs /\ higherLows THEN [trend |-> "uptrend", strength |-> 8]
             ELSE IF lowerHighs /\ lowerLows THEN [trend |-> "downtrend", strength |-> 8]
             ELSE [trend |-> "ranging", strength |-> 5]
    ELSE [trend |-> "neutral", strength |-> 0]

\* trend of the two latest swing highs and lows; strength in tenths
CurrentTrend(highs, lows) ==
    IF Len(highs) > 0 /\ Len(lows) > 0 /\ Len(highs) >= 2 /\ Len(lows) >= 2
    THEN LET lastHigh == highs[Len(highs)]
             lastLow == lows[Len(lows)]
             prevHigh == highs[Len(highs) - 1]
             prevLow == lows[Len(lows) - 1]
             higherHighs == lastHigh.price > prevHigh.price
             higherLows == lastLow.price > prevLow.price
             lowerHighs == lastHigh.price < prevHigh.price
             lowerLows == lastLow.price < prevLow.price
         IN  IF higherHighs /\ higherLows THEN [trend |-> "uptrend", strength |-> 8]
             ELSE IF lowerHighs /\ lowerLows THEN [trend |-> "downtrend", strength |-> 8]
             ELSE [trend |-> "ranging", strength |-> 5]
    ELSE [trend |-> "neutral", strength |-> 0]

detectSwingPoints(data) ==
    IF Len(data) < 5
    THEN [highs |-> <<>>, lows |-> <<>>, current |-> [trend |-> "neutral", strength |-> 0]]
    ELSE LET highs == SwingHighsFrom(data, 2)
             lows == SwingLowsFrom(data, 2)
         IN  [highs |-> highs, lows |-> lows, current |-> CurrentTrend(highs, lows)]

\* swings.highs.slice(-3).find(h => h.index < i)
RecentSwing(swingList, i) ==
    LET last3 == SliceLast(swingList, 3)
        Before(h) == h.index < i
        k == Find(last3, Before)
    IN  IF k = 0 THEN Null ELSE last3[k]

\* the breaks pushed for bar i: the bullish one, then the bearish one;
\* strength in percent, in units of 1/StrengthScale, truncated
BreaksAt(data, swings, i) ==
    LET cur == At(data, i).close
        prevPrice == At(data, i - 1).close
        recentHigh == RecentSwing(swings.highs, i)
        recentLow == RecentSwing(swings.lows, i)
    IN  (IF recentHigh # Null /\ prevPrice <= recentHigh.price /\ cur > recentHigh.price
         THEN <<[index |-> i, type |-> "bullish", price |-> cur,
                 level |-> recentHigh.price,
                 strength |-> ((cur - recentHigh.price) * 100 * StrengthScale)
                                  \div recentHigh.price]>>
         ELSE <<>>)
        \o
        (IF recentLow # Null /\ prevPrice >= recentLow.price /\ cur < recentLow.price
         THEN <<[index |-> i, type |-> "bearish", price |-> cur,
                 level |-> recentLow.price,
                 strength |-> ((recentLow.price - cur) * 100 * StrengthScale)
                                  \div recentLow.price]>>
         ELSE <<>>)

RECURSIVE BreaksFrom(_, _, _)
BreaksFrom(data, swings, i) ==
    IF i >= Len(data) THEN <<>>
    ELSE BreaksAt(data, swings, i) \o BreaksFrom(data, swings, i + 1)

detectBreakOfStructure(data, swings) ==
    IF Len(swings.highs) < 2 \/ Len(swings.lows) < 2
    THEN [bos |-> <<>>, choch |-> <<>>]
    ELSE [bos |-> BreaksFrom(data, swings, 1), choch |-> <<>>]

----------------------------------------------------------------------------
(* Support / resistance clustering *)

\* A cluster price is the fraction n/d; merging halves, so d is a power of 2.
RECURSIVE Reduce2(_)
Reduce2(f) == IF f.n % 2 = 0 /\ f.d % 2 = 0
              THEN Reduce2([n |-> f.n \div 2, d |-> f.d \div 2]) ELSE f

\* (c.price + point.price) / 2
MeanPrice(cp, price) == Reduce2([n |-> cp.n + price * cp.d, d |-> 2 * cp.d])

\* WithinTolerance with a tolerance of 0.1%
WithinTolerance_Tight(cp, price) == Abs(cp.n - price * cp.d) * 1000 < 1 * cp.n

\* Math.abs(c.price - point.price) / c.price < tolerance, tolerance = 0.005,
\* multiplied through by 1000 * c.price (c.price > 0)
WithinTolerance(cp, price) == Abs(cp.n - price * cp.d) * 1000 < 5 * cp.n

\* allPoints: the swing highs typed resistance, then the swing lows typed support
AllPoints(swings) ==
    [k \in 1..Len(swings.highs) |->
        [price |-> swings.highs[k].price, type |-> "resistance",
         strength |-> swings.highs[k].strength]]
    \o
    [k \in 1..Len(swings.lows) |->
        [price |-> swings.lows[k].price, type |-> "support",
         strength |-> swings.lows[k].strength]]

\* allPoints.forEach from point k on.  clusters is the array built so far;
\* assigned (not in the source) records, for each point processed, the
\* position of the cluster it went to.
RECURSIVE ClusterPoints(_, _, _, _)
ClusterPoints(points, k, clusters, assigned) ==
    IF k > Len(points) THEN [clusters |-> clusters, assigned |-> assigned]
    ELSE LET point == points[k]
             Near(c) == WithinTolerance(c.price, point.price)
             e == Find(clusters, Near)
         IN  IF e # 0
             THEN ClusterPoints(points, k + 1,
                      [clusters EXCEPT ![e] =
                          [price |-> MeanPrice(clusters[e].price, point.price),
                           type |-> clusters[e].type,
                           touches |-> clusters[e].touches + 1,
                           strength |-> clusters[e].strength + point.strength]],
                      Append(assigned, e))
             ELSE ClusterPoints(points, k + 1,
                      Append(clusters,
                          [price |-> [n |-> point.price, d |-> 1],
                           type |-> point.type,
                           touches |-> 1,
                           strength |-> point.strength]),
                      Append(assigned, Len(clusters) + 1))

\* the level of cluster c: strength and distance in percent, in units of
\* 1/StrengthScale, truncated; distance is 0 when currentPrice is null
LevelOf(c, numClusters, spot) ==
    [price |-> c.price, type |-> c.type, touches |-> c.touches,
     strength |-> (c.touches * c.strength) \div numClusters,
     distance |-> IF spot # 0
                  THEN (Abs(c.price.n - spot * c.price.d) * 100 * StrengthScale)
                           \div (spot * c.price.d)
                  ELSE 0]

LevelStrength(l) == l.strength

\* calculateSupportResistance without the final slice(0, 8)
calculateSupportResistance_Unsliced(data, swings, spot) ==
    LET clusters == ClusterPoints(AllPoints(swings), 1, <<>>, <<>>).clusters
        levels == [k \in 1..Len(clusters) |-> LevelOf(clusters[k], Len(clusters), spot)]
    IN  SortDesc(levels, LevelStrength)

calculateSupportResistance(data, swings, spot) ==
    LET clusters == ClusterPoints(AllPoints(swings), 1, <<>>, <<>>).clusters
        levels == [k \in 1..Len(clusters) |-> LevelOf(clusters[k], Len(clusters), spot)]
    IN  SliceFirst(SortDesc(levels, LevelStrength), 8)

----------------------------------------------------------------------------
(* Volume profile *)

numBins == 50

\* closes of the volume-profile specification: multiples of numBins / 2, so
\* that binSize = (maxPrice - minPrice) / numBins and every bin edge are exact
\* in double arithmetic
ProfileCloses == {500 + k * (numBins \div 2) : k \in 0..3}

NegInfinity == [kind |-> "-Infinity"]
PosInfinity == [kind |-> "Infinity"]
Num(v) == [kind |-> "num", v |-> v]

\* volumes[idx] = d.volume || 1000000
VolumeOr(d) == IF d.volume # 0 THEN d.volume ELSE 1000000

\* d.close >= binLow && d.close < binHigh for bin i (0-based), where
\* binLow = minPrice + i * binSize and binHigh = binLow + binSize; both
\* sides are multiplied by numBins
InBin(d, i, minPrice, maxPrice) ==
    /\ numBins * (d.close - minPrice) >= i * (maxPrice - minPrice)
    /\ numBins * (d.close - minPrice) < (i + 1) * (maxPrice - minPrice)

RECURSIVE SumVolume(_, _, _, _, _)
SumVolume(data, idx, i, minPrice, maxPrice) ==
    IF idx > Len(data) THEN 0
    ELSE (IF InBin(data[idx], i, minPrice, maxPrice) THEN VolumeOr(data[idx]) ELSE 0)
         + SumVolume(data, idx + 1, i, minPrice, maxPrice)

\* bin i (0-based).  priceLow and priceHigh are in units of 1/numBins,
\* priceLevel = (binLow + binHigh) / 2 in units of 1/(2 * numBins).
ProfileBin(data, i, minPrice, maxPrice) ==
    [priceLevel |-> 2 * numBins * minPrice + (2 * i + 1) * (maxPrice - minPrice),
     volume |-> SumVolume(data, 1, i, minPrice, maxPrice),
     priceLow |-> numBins * minPrice + i * (maxPrice - minPrice),
     priceHigh |-> numBins * minPrice + (i + 1) * (maxPrice - minPrice)]

\* PocFrom where a later bin of equal volume replaces the maximum
RECURSIVE PocFrom_LastMax(_, _, _)
PocFrom_LastMax(profile, k, max) ==
    IF k > Len(profile) THEN max
    ELSE PocFrom_LastMax(profile, k + 1,
             IF profile[k].volume >= max.volume THEN profile[k] ELSE max)

\* profile.reduce((max, curr) => curr.volume > max.volume ? curr : max, profile[0])
RECURSIVE PocFrom(_, _, _)
PocFrom(profile, k, max) ==
    IF k > Len(profile) THEN max
    ELSE PocFrom(profile, k + 1, IF profile[k].volume > max.volume THEN profile[k] ELSE max)

RECURSIVE SumBins(_, _)
SumBins(profile, k) ==
    IF k > Len(profile) THEN 0 ELSE profile[k].volume + SumBins(profile, k + 1)

BinVolume(b) == b.volume

\* the loop over sortedByVolume: nodes are taken while
\* accumulatedVolume < totalVolume * 0.7 (both sides multiplied by 10)
RECURSIVE ValueAreaFrom(_, _, _, _)
ValueAreaFrom(sorted, k, accumulatedVolume, totalVolume) ==
    IF k > Len(sorted) THEN <<>>
    ELSE IF 10 * accumulatedVolume < 7 * totalVolume
         THEN <<sorted[k]>> \o ValueAreaFrom(sorted, k + 1,
                                   accumulatedVolume + sorted[k].volume, totalVolume)
         ELSE <<>>

\* Math.max(...levels) and Math.min(...levels); of no argument they are
\* -Infinity and Infinity
MathMax(levels) == IF levels = <<>> THEN NegInfinity ELSE Num(MaxOf(levels))
MathMin(levels) == IF levels = <<>> THEN PosInfinity ELSE Num(MinOf(levels))

calculateVolumeProfile(data) ==
    IF Len(data) = 0 THEN [profile |-> <<>>, poc |-> Null, vah |-> Null, val |-> Null]
    ELSE LET prices == [k \in 1..Len(data) |-> data[k].close]
             minPrice == MinOf(prices)
             maxPrice == MaxOf(prices)
             profile == [k \in 1..numBins |-> ProfileBin(data, k - 1, minPrice, maxPrice)]
             poc == PocFrom(profile, 1, profile[1])
             totalVolume == SumBins(profile, 1)
             sortedByVolume == SortDesc(profile, BinVolume)
             valueArea == ValueAreaFrom(sortedByVolume, 1, 0, totalVolume)
             levels == [k \in 1..Len(valueArea) |-> valueArea[k].priceLevel]
         IN  [profile |-> profile, poc |-> poc,
              vah |-> MathMax(levels), val |-> MathMin(levels)]

\* a bar with close c and volume v (0 models a missing volume)
VolumeBar(c, v, t) == [close |-> c, volume |-> v, timestamp |-> t]

\* the volume-profile hook before any price data arrives
VolumeIdle ==
    /\ profileData = <<>>
    /\ volumeProfile = calculateVolumeProfile(<<>>)

----------------------------------------------------------------------------
(* Options walls and max pain *)

\* A strike field holds twice the strike, so that half-dollar strikes are
\* integers here: 1000 is the strike 500 and 1001 the strike 500.5.
StrikeUnit == 2

\* String.prototype.toLowerCase on the type strings of the model
ToLowerCase(t) ==
    CASE t = "CALL" -> "call"
      [] t = "PUT" -> "put"
      [] t = "Call" -> "call"
      [] t = "Put" -> "put"
      [] t = "STRADDLE" -> "straddle"
      [] OTHER -> t

\* the key String(strike) is an array index (an integer), so that the engine
\* enumerates it before the other keys and in ascending numeric order
IsIndexKey(strike) == strike >= 0 /\ strike % StrikeUnit = 0

EntryStrike(e) == e.strike

\* Object.values(obj) of an object whose entries were inserted in the order
\* of `entries`: integer keys ascending, then the other keys in insertion order
ObjectValues(entries) ==
    SortAsc(SelectSeq(entries, LAMBDA e : IsIndexKey(e.strike)), EntryStrike)
    \o SelectSeq(entries, LAMBDA e : ~IsIndexKey(e.strike))

\* opt.openInterest || opt.oi || 0
OpenInterestOf(opt) ==
    IF opt.openInterest # 0 THEN opt.openInterest ELSE opt.oi

NewStrikeData(strike) ==
    [strike |-> strike, callOI |-> 0, putOI |-> 0, callVolume |-> 0,
     putVolume |-> 0, callGamma |-> 0, putGamma |-> 0]

\* the body of optionsData.forEach for one contract, on the entry of its strike
AddContract(sd, opt) ==
    LET optType == ToLowerCase(opt.type)
        openInterest == OpenInterestOf(opt)
    IN  IF optType = "call"
        THEN [sd EXCEPT !.callOI = @ + openInterest,
                        !.callVolume = @ + opt.volume,
                        !.callGamma = @ + opt.gamma * openInterest]
        ELSE IF optType = "put"
        THEN [sd EXCEPT !.putOI = @ + openInterest,
                        !.putVolume = @ + opt.volume,
                        !.putGamma = @ + opt.gamma * openInterest]
        ELSE sd

\* optionsData.forEach from contract k on; strikeData is kept as the sequence
\* of its entries in insertion order
RECURSIVE StrikeDataFrom(_, _, _)
StrikeDataFrom(options, k, strikeData) ==
    IF k > Len(options) THEN strikeData
    ELSE LET opt == options[k]
             e == Find(strikeData, LAMBDA sd : sd.strike = opt.strike)
         IN  IF e = 0
             THEN StrikeDataFrom(options, k + 1,
                      Append(strikeData, AddContract(NewStrikeData(opt.strike), opt)))
             ELSE StrikeDataFrom(options, k + 1,
                      [strikeData EXCEPT ![e] = AddContract(@, opt)])

\* putCallRatio is the fraction n/d
WithMetrics(sd) ==
    [strike |-> sd.strike, callOI |-> sd.callOI, putOI |-> sd.putOI,
     callVolume |-> sd.callVolume, putVolume |-> sd.putVolume,
     callGamma |-> sd.callGamma, putGamma |-> sd.putGamma,
     netOI |-> sd.callOI - sd.putOI,
     netGamma |-> sd.callGamma - sd.putGamma,
     totalOI |-> sd.callOI + sd.putOI,
     putCallRatio |-> IF sd.callOI > 0 THEN [n |-> sd.putOI, d |-> sd.callOI]
                      ELSE [n |-> 0, d |-> 1]]

\* the inner walls.forEach: total pain at the candidate strike
RECURSIVE TotalPainFrom(_, _, _)
TotalPainFrom(walls, k, strike) ==
    IF k > Len(walls) THEN 0
    ELSE LET w == walls[k] IN
         (IF strike > w.strike THEN w.callOI * (strike - w.strike) ELSE 0)
         + (IF strike < w.strike THEN w.putOI * (w.strike - strike) ELSE 0)
         + TotalPainFrom(walls, k + 1, strike)

\* MaxPainFrom keeping the candidate of the larger pain instead
RECURSIVE MaxPainFrom_Greater(_, _, _, _)
MaxPainFrom_Greater(walls, k, minPain, maxPainStrike) ==
    IF k > Len(walls) THEN maxPainStrike
    ELSE LET totalPain == TotalPainFrom(walls, 1, walls[k].strike)
         IN  IF minPain = Null \/ totalPain > minPain.v
             THEN MaxPainFrom_Greater(walls, k + 1, Num(totalPain), Num(walls[k].strike))
             ELSE MaxPainFrom_Greater(walls, k + 1, minPain, maxPainStrike)

\* the outer walls.forEach from wall k on; minPain is Null while it is Infinity
RECURSIVE MaxPainFrom(_, _, _, _)
MaxPainFrom(walls, k, minPain, maxPainStrike) ==
    IF k > Len(walls) THEN maxPainStrike
    ELSE LET totalPain == TotalPainFrom(walls, 1, walls[k].strike)
         IN  IF minPain = Null \/ totalPain < minPain.v
             THEN MaxPainFrom(walls, k + 1, Num(totalPain), Num(walls[k].strike))
             ELSE MaxPainFrom(walls, k + 1, minPain, maxPainStrike)

calculateMaxPain(walls) == MaxPainFrom(walls, 1, Null, Null)

WallTotalOI(w) == w.totalOI

\* sortedByOI[Math.floor(sortedByOI.length * fifths / 5)]?.totalOI || 0
OIThreshold(walls, tenths) ==
    LET sortedByOI == SortDesc(walls, WallTotalOI)
        k == (Len(sortedByOI) * tenths) \div 10
    IN  IF k < Len(sortedByOI) THEN At(sortedByOI, k).totalOI ELSE 0

\* the result object; spot is the price the walls are compared with, in
\* dollars (0 models null, which compares as 0)
WallSet(walls, orderedWalls, tenths, spot) ==
    LET threshold == OIThreshold(walls, tenths)
        significantWalls == SelectSeq(walls, LAMBDA w : w.totalOI >= threshold)
    IN  [walls |-> orderedWalls,
         maxPain |-> calculateMaxPain(walls),
         significantWalls |-> significantWalls,
         supportWalls |-> SelectSeq(significantWalls,
             LAMBDA w : w.strike < StrikeUnit * spot /\ w.putOI > w.callOI),
         resistanceWalls |-> SelectSeq(significantWalls,
             LAMBDA w : w.strike > StrikeUnit * spot /\ w.callOI > w.putOI)]

\* 50000 * Math.exp(-distanceFromPrice / 15) for a strike i * 5 away from an
\* integer basePrice, rounded to an integer
BaseOI(i) ==
    <<50000, 35827, 25671, 18394, 13180, 9444, 6767, 4849, 3474, 2489, 1784>>[Abs(i) + 1]

\* Math.random(): the generator is seeded outside the program; draw n (0-based)
\* of the stream of seed is a numerator over RandDen
RandomDraw(seed, n) == (seed * (2 * n + 1) + (n * (n + 1)) \div 2) % RandDen

\* Math.round of the non-negative fraction n / d
RoundDiv(n, d) == (2 * n + d) \div (2 * d)

\* the wall pushed for i in -10..10; the four draws are taken in source order.
\* callGamma and putGamma are in units of 1/10000.
MockWall(basePrice, i, seed) ==
    LET baseOI == BaseOI(i)
        callSkew == IF i > 0 THEN 8 ELSE 12      \* tenths
        putSkew == IF i < 0 THEN 13 ELSE 7       \* tenths
        r(j) == RandomDraw(seed, 4 * (i + 10) + j)
    IN  [strike |-> StrikeUnit * (basePrice + i * 5),
         callOI |-> RoundDiv(baseOI * callSkew * (8 * RandDen + 4 * r(0)), 100 * RandDen),
         putOI |-> RoundDiv(baseOI * putSkew * (8 * RandDen + 4 * r(1)), 100 * RandDen),
         callVolume |-> RoundDiv(baseOI * r(2), 10 * RandDen),
         putVolume |-> RoundDiv(baseOI * r(3), 10 * RandDen),
         callGamma |-> baseOI * callSkew,
         putGamma |-> baseOI * putSkew]

generateMockOptionsWalls(spot, seed) ==
    LET basePrice == IF spot # 0 THEN spot ELSE 595
        walls == [k \in 1..21 |-> MockWall(basePrice, k - 11, seed)]
        wallsWithMetrics == [k \in 1..21 |-> WithMetrics(walls[k])]
    IN  WallSet(wallsWithMetrics, wallsWithMetrics, 3, basePrice)

\* seed is the state of Math.random() when the call is made
calculateOptionsWalls(options, spot, seed) ==
    IF Len(options) = 0
    THEN generateMockOptionsWalls(spot, seed)
    ELSE LET strikeData == StrikeDataFrom(options, 1, <<>>)
             values == ObjectValues(strikeData)
             walls == [k \in 1..Len(values) |-> WithMetrics(values[k])]
         IN  WallSet(walls, SortAsc(walls, EntryStrike), 2, spot)

\* the contracts of the model: a lower-case contract carries openInterest,
\* an upper-case one (the dashboard's format) carries oi
\* delta is 1 for a call and -1 for a put, in the unit of gamma
Contract(strike, type, n, gamma) ==
    [strike |-> strike, type |-> type,
     openInterest |-> IF type = ToLowerCase(type) THEN n ELSE 0,
     oi |-> IF type = ToLowerCase(type) THEN 0 ELSE n,
     volume |-> n, gamma |-> gamma,
     delta |-> IF ToLowerCase(type) = "call" THEN 1 ELSE -1]

WallStrikes == {1000, 1001, 1003}
WallTypes == {"call", "PUT", "straddle"}
WallSpots == {0, 502}

\* the options hook before the first render
WallsIdle ==
    /\ optionsData = <<>>
    /\ optionsWalls = Null

----------------------------------------------------------------------------
(* Dealer gamma exposure *)

\* the fraction n/d as a value that can also be Null
Frac(n, d) == [kind |-> "num", n |-> n, d |-> d]

NewStrikeEntry(strike) ==
    [strike |-> strike, callGamma |-> 0, putGamma |-> 0, callDelta |-> 0,
     putDelta |-> 0, netGamma |-> 0, netDelta |-> 0]

\* AddExposure with the dealers long the open interest
AddExposure_Long(e, opt) ==
    LET notional == opt.oi * 100
    IN  IF opt.type = "CALL"
        THEN [e EXCEPT !.callGamma = @ + opt.gamma * notional,
                       !.callDelta = @ + opt.delta * notional]
        ELSE [e EXCEPT !.putGamma = @ + opt.gamma * notional,
                       !.putDelta = @ + opt.delta * notional]

\* the body of options.forEach for one contract, on the entry of its strike
AddExposure(e, opt) ==
    LET notional == opt.oi * 100 * (-1)
    IN  IF opt.type = "CALL"
        THEN [e EXCEPT !.callGamma = @ + opt.gamma * notional,
                       !.callDelta = @ + opt.delta * notional]
        ELSE [e EXCEPT !.putGamma = @ + opt.gamma * notional,
                       !.putDelta = @ + opt.delta * notional]

\* options.forEach from contract k on; strikeMap is kept as the sequence of
\* its entries in insertion order
RECURSIVE StrikeMapFrom(_, _, _)
StrikeMapFrom(options, k, strikeMap) ==
    IF k > Len(options) THEN strikeMap
    ELSE LET opt == options[k]
             e == Find(strikeMap, LAMBDA x : x.strike = opt.strike)
         IN  IF e = 0
             THEN StrikeMapFrom(options, k + 1,
                      Append(strikeMap, AddExposure(NewStrikeEntry(opt.strike), opt)))
             ELSE StrikeMapFrom(options, k + 1,
                      [strikeMap EXCEPT ![e] = AddExposure(@, opt)])

WithNet(e) ==
    [e EXCEPT !.netGamma = e.callGamma + e.putGamma,
              !.netDelta = e.callDelta + e.putDelta]

RECURSIVE SumNetGamma(_, _)
SumNetGamma(strikes, k) ==
    IF k > Len(strikes) THEN 0 ELSE strikes[k].netGamma + SumNetGamma(strikes, k + 1)

RECURSIVE SumNetDelta(_, _)
SumNetDelta(strikes, k) ==
    IF k > Len(strikes) THEN 0 ELSE strikes[k].netDelta + SumNetDelta(strikes, k + 1)

\* GammaFlipFrom without the break: the last sign change wins
RECURSIVE GammaFlipFrom_NoBreak(_, _, _)
GammaFlipFrom_NoBreak(strikes, i, gammaFlip) ==
    IF i >= Len(strikes) THEN gammaFlip
    ELSE IF strikes[i].netGamma * strikes[i + 1].netGamma < 0
         THEN GammaFlipFrom_NoBreak(strikes, i + 1,
                  Frac(strikes[i].strike + strikes[i + 1].strike, 2 * StrikeUnit))
         ELSE GammaFlipFrom_NoBreak(strikes, i + 1, gammaFlip)

\* the gamma-flip loop from position i (1-based) on; the mean of two strikes
\* is the fraction (strike_i + strike_i+1) / (2 * StrikeUnit) in dollars
RECURSIVE GammaFlipFrom(_, _, _)
GammaFlipFrom(strikes, i, gammaFlip) ==
    IF i >= Len(strikes) THEN gammaFlip
    ELSE IF strikes[i].netGamma * strikes[i + 1].netGamma < 0
         THEN Frac(strikes[i].strike + strikes[i + 1].strike, 2 * StrikeUnit)
         ELSE GammaFlipFrom(strikes, i + 1, gammaFlip)

\* strikes.reduce((max, s) => |s.netGamma| > |max.netGamma| ? s : max, strikes[0])
RECURSIVE MaxGammaFrom(_, _, _)
MaxGammaFrom(strikes, k, max) ==
    IF k > Len(strikes) THEN max
    ELSE MaxGammaFrom(strikes, k + 1,
             IF Abs(strikes[k].netGamma) > Abs(max.netGamma) THEN strikes[k] ELSE max)

calculateDealerMetrics(options, spy) ==
    IF Len(options) = 0 \/ spy = 0 THEN Null
    ELSE LET strikeMap == StrikeMapFrom(options, 1, <<>>)
             values == ObjectValues(strikeMap)
             strikes == SortAsc([k \in 1..Len(values) |-> WithNet(values[k])], EntryStrike)
             totalGamma == SumNetGamma(strikes, 1)
         IN  [strikes |-> strikes,
              totalGamma |-> totalGamma,
              totalDelta |-> SumNetDelta(strikes, 1),
              gammaFlipPoint |-> GammaFlipFrom(strikes, 1, Null),
              isShortGamma |-> totalGamma < 0,
              maxGammaStrike |-> MaxGammaFrom(strikes, 1, strikes[1])]

DealerStrikes == {1000, 1010, 1020}
DealerTypes == {"CALL", "PUT", "STRADDLE"}
DealerGammas == {-1, 1}
DealerSpots == {0, 502}

DealerIdle == dealerMetrics = Null

----------------------------------------------------------------------------
(* Correlation *)

RECURSIVE SumSeq(_)
SumSeq(s) == IF s = <<>> THEN 0 ELSE s[1] + SumSeq(Tail(s))

\* The result numerator / Math.sqrt(denom1 * denom2) is kept as the pair
\* (num, den2) standing for num / sqrt(den2).  With n the length, the
\* differences from the means are kept multiplied by n (n * arr[i] - sum),
\* which multiplies numerator and sqrt(denom1 * denom2) by n * n alike.
ZeroCorr == [num |-> 0, den2 |-> 1]

\* calculateCorrelation with mean2 taken from arr1
calculateCorrelation_Mean1(arr1, arr2) ==
    IF Len(arr1) # Len(arr2) \/ Len(arr1) = 0 THEN ZeroCorr
    ELSE LET n == Len(arr1)
             sum1 == SumSeq(arr1)
             diff1(i) == n * arr1[i] - sum1
             diff2(i) == n * arr2[i] - sum1
             numerator == SumSeq([i \in 1..n |-> diff1(i) * diff2(i)])
             denom1 == SumSeq([i \in 1..n |-> diff1(i) * diff1(i)])
             denom2 == SumSeq([i \in 1..n |-> diff2(i) * diff2(i)])
         IN  IF denom1 = 0 \/ denom2 = 0 THEN ZeroCorr
             ELSE [num |-> numerator, den2 |-> denom1 * denom2]

calculateCorrelation(arr1, arr2) ==
    IF Len(arr1) # Len(arr2) \/ Len(arr1) = 0 THEN ZeroCorr
    ELSE LET n == Len(arr1)
             sum1 == SumSeq(arr1)
             sum2 == SumSeq(arr2)
             diff1(i) == n * arr1[i] - sum1
             diff2(i) == n * arr2[i] - sum2
             numerator == SumSeq([i \in 1..n |-> diff1(i) * diff2(i)])
             denom1 == SumSeq([i \in 1..n |-> diff1(i) * diff1(i)])
             denom2 == SumSeq([i \in 1..n |-> diff2(i) * diff2(i)])
         IN  IF denom1 = 0 \/ denom2 = 0 THEN ZeroCorr
             ELSE [num |-> numerator, den2 |-> denom1 * denom2]

\* Array.prototype.slice(from, to) with 0-based bounds inside the array
Slice(s, from, to) == SubSeq(s, from + 1, to)

\* the point pushed for index i
RollingPoint(data, window, i) ==
    LET slice == Slice(data, i - window, i)
        spyPrices == [k \in 1..Len(slice) |-> slice[k].spy]
        vixPrices == [k \in 1..Len(slice) |-> slice[k].vix]
    IN  [timestamp |-> At(data, i).timestamp,
         spyVixCorr |-> calculateCorrelation(spyPrices, vixPrices),
         spy |-> At(data, i).spy,
         vix |-> At(data, i).vix]

\* for (let i = window; i < data.length; i++)
calculateRollingCorrelation(data, window) ==
    [k \in 1..(IF Len(data) > window THEN Len(data) - window ELSE 0) |->
        RollingPoint(data, window, window + k - 1)]

CorrelationIdle ==
    /\ corrSeries = <<>>
    /\ correlationData = <<>>
    /\ correlation = ZeroCorr

----------------------------------------------------------------------------
(* Stochastic oscillator *)

NaN == [kind |-> "NaN"]

\* the double x / y for integers x, y as a fraction, an infinity or NaN
Divide(x, y) ==
    IF y # 0 THEN Frac(x, y)
    ELSE IF x = 0 THEN NaN
    ELSE IF x > 0 THEN PosInfinity ELSE NegInfinity

\* k * 0.3 + 50 * 0.7
PercentD(k) == IF k.kind = "num" THEN Frac(3 * k.n + 350 * k.d, 10 * k.d) ELSE k

calculateStochastic(highs, lows, closes, period) ==
    IF Len(closes) < period THEN [k |-> Frac(50, 1), d |-> Frac(50, 1)]
    ELSE LET recentHighs == SliceLast(highs, period)
             recentLows == SliceLast(lows, period)
             currentClose == closes[Len(closes)]
             highestHigh == MaxOf(recentHighs)
             lowestLow == MinOf(recentLows)
             k == Divide((currentClose - lowestLow) * 100, highestHigh - lowestLow)
         IN  [k |-> k, d |-> PercentD(k)]

StochasticIdle ==
    /\ stochBars = <<>>
    /\ stochastic = calculateStochastic(<<>>, <<>>, <<>>, StochPeriod)

----------------------------------------------------------------------------
(* Sentiment prediction *)

\* ToNumber of a value that is null or a number
ToNumber(x) == IF x = Null THEN 0 ELSE x.v

\* AboveFlip with a comparison to null that is never true
AboveFlip_NullFalse(spy, flip) == IF flip = Null THEN FALSE ELSE spy * flip.d > flip.n

\* spy > gammaFlipPoint, the flip point being null or a fraction of dollars
AboveFlip(spy, flip) == IF flip = Null THEN spy > 0 ELSE spy * flip.d > flip.n

Signal(factor, sentiment, weight) ==
    [factor |-> factor, sentiment |-> sentiment, weight |-> weight]

\* DealerSignal without the signal of dealers that are long gamma
DealerSignal_ShortOnly(dealer, spy) ==
    IF dealer.isShortGamma
    THEN IF AboveFlip(spy, dealer.gammaFlipPoint)
         THEN <<Signal("Dealer Short Gamma Above Flip", "bullish", 2)>>
         ELSE <<Signal("Dealer Short Gamma Below Flip", "bearish", 2)>>
    ELSE <<>>

\* the signal of each factor, as the sequence of the signals it pushes;
\* pcrVolume, ivHVSpread and ivSkew are in hundredths
DealerSignal(dealer, spy) ==
    IF dealer.isShortGamma
    THEN IF AboveFlip(spy, dealer.gammaFlipPoint)
         THEN <<Signal("Dealer Short Gamma Above Flip", "bullish", 2)>>
         ELSE <<Signal("Dealer Short Gamma Below Flip", "bearish", 2)>>
    ELSE <<Signal("Dealer Long Gamma (Dampening)", "bearish", 1)>>

PcrSignal(vol) ==
    IF vol.pcrVolume > 120 THEN <<Signal("High Put Buying (PCR > 1.2)", "bullish", 1)>>
    ELSE IF vol.pcrVolume < 70 THEN <<Signal("High Call Buying (PCR < 0.7)", "bearish", 1)>>
    ELSE <<>>

IvHvSignal(vol) ==
    IF vol.ivHVSpread > 5 THEN <<Signal("IV Premium to HV (Fear)", "bearish", 1)>>
    ELSE IF vol.ivHVSpread < -2 THEN <<Signal("IV Discount to HV", "bullish", 1)>>
    ELSE <<>>

\* VixSignal with weight 1 for an elevated VIX
VixSignal_Weight1(vol) ==
    IF vol.vixLevel > 25 THEN <<Signal("Elevated VIX (>25)", "bullish", 1)>>
    ELSE IF vol.vixLevel < 12 THEN <<Signal("Low VIX (<12)", "bearish", 1)>>
    ELSE <<>>

VixSignal(vol) ==
    IF vol.vixLevel > 25 THEN <<Signal("Elevated VIX (>25)", "bullish", 2)>>
    ELSE IF vol.vixLevel < 12 THEN <<Signal("Low VIX (<12)", "bearish", 1)>>
    ELSE <<>>

IvSkewSignal(vol) ==
    IF vol.ivSkew > 5 THEN <<Signal("High Put Skew (>5%)", "bearish", 1)>>
    ELSE <<>>

SkewSignal(skew) ==
    IF ToNumber(skew) > 140 THEN <<Signal("Elevated SKEW (>140)", "bearish", 2)>>
    ELSE IF ToNumber(skew) < 120 THEN <<Signal("Low SKEW (<120)", "bullish", 1)>>
    ELSE <<>>

\* bull (sentiment "bullish") or bear (sentiment "bearish") after the pushes
RECURSIVE ScoreOf(_, _, _)
ScoreOf(signals, k, sentiment) ==
    IF k > Len(signals) THEN 0
    ELSE (IF signals[k].sentiment = sentiment THEN signals[k].weight ELSE 0)
         + ScoreOf(signals, k + 1, sentiment)

\* the direction with bull >= bear in place of bull > bear
Direction_TieBullish(bull, bear) == IF bull >= bear THEN "BULLISH" ELSE "BEARISH"

Direction(bull, bear) == IF bull > bear THEN "BULLISH" ELSE "BEARISH"

generatePrediction(volMetrics, dealer, spy, skew, now) ==
    IF volMetrics = Null \/ dealer = Null THEN Null
    ELSE LET signals == DealerSignal(dealer, spy) \o PcrSignal(volMetrics)
                          \o IvHvSignal(volMetrics) \o VixSignal(volMetrics)
                          \o IvSkewSignal(volMetrics) \o SkewSignal(skew)
             bull == ScoreOf(signals, 1, "bullish")
             bear == ScoreOf(signals, 1, "bearish")
         IN  [prediction |-> Direction(bull, bear),
              confidence |-> Divide(Abs(bull - bear), bull + bear),
              signals |-> signals,
              bullishScore |-> bull,
              bearishScore |-> bear,
              timestamp |-> now,
              spyPriceAtPrediction |-> spy]

\* the inputs of the prediction specification, on both sides of each threshold
PcrValues == {69, 70, 120, 121}
IvHvValues == {-3, -2, 5, 6}
VixValues == {11, 12, 25, 26}
IvSkewValues == {5, 6}
SkewValues == {Null} \cup {Num(v) : v \in {119, 120, 140, 141}}
FlipValues == {Null, Frac(1000, 2), Frac(1010, 2)}
PredSpots == {502}

VolMetricsInputs ==
    {Null} \cup [pcrVolume : PcrValues, ivHVSpread : IvHvValues,
                 vixLevel : VixValues, ivSkew : IvSkewValues]
DealerInputs ==
    {Null} \cup [isShortGamma : BOOLEAN, gammaFlipPoint : FlipValues]

PredictionIdle ==
    /\ predInput = [volMetrics |-> Null, dealerMetrics |-> Null,
                    spy |-> 502, skew |-> Null]
    /\ prediction = Null

----------------------------------------------------------------------------
(* RSI *)

\* gains (up = TRUE) or losses summed over the deltas i-1 -> i, i from k on
\* (1-based positions)
RECURSIVE SumChanges(_, _, _)
SumChanges(data, k, up) ==
    IF k > Len(data) THEN 0
    ELSE LET change == data[k] - data[k - 1]
         IN  (IF up THEN (IF change > 0 THEN change ELSE 0)
                    ELSE (IF change > 0 THEN 0 ELSE -change))
             + SumChanges(data, k + 1, up)

\* calculateRSI without the avgLoss === 0 test
calculateRSI_NoLossTest(data, period) ==
    IF Len(data) < period + 1 THEN Frac(50, 1)
    ELSE LET gains == SumChanges(data, Len(data) - period + 1, TRUE)
             losses == SumChanges(data, Len(data) - period + 1, FALSE)
         IN  IF gains + losses = 0 THEN NaN
             ELSE Frac(100 * period * (gains + losses) - 100 * period * losses,
                       period * (gains + losses))

\* calculateRSI asking for one more point before it computes
calculateRSI_LongerWarmup(data, period) ==
    IF Len(data) < period + 2 THEN Frac(50, 1)
    ELSE LET gains == SumChanges(data, Len(data) - period + 1, TRUE)
             losses == SumChanges(data, Len(data) - period + 1, FALSE)
         IN  IF losses = 0 THEN Frac(100, 1)
             ELSE Frac(100 * period * (gains + losses) - 100 * period * losses,
                       period * (gains + losses))

\* calculateRSI summing the changes of the whole series
calculateRSI_AllDeltas(data, period) ==
    IF Len(data) < period + 1 THEN Frac(50, 1)
    ELSE LET gains == SumChanges(data, 2, TRUE)
             losses == SumChanges(data, 2, FALSE)
         IN  IF losses = 0 THEN Frac(100, 1)
             ELSE Frac(100 * period * (gains + losses) - 100 * period * losses,
                       period * (gains + losses))

\* avgGain = gains / period, avgLoss = losses / period, rs = avgGain / avgLoss;
\* 100 - 100 / (1 + rs) is the fraction below
calculateRSI(data, period) ==
    IF Len(data) < period + 1 THEN Frac(50, 1)
    ELSE LET gains == SumChanges(data, Len(data) - period + 1, TRUE)
             losses == SumChanges(data, Len(data) - period + 1, FALSE)
         IN  IF losses = 0 THEN Frac(100, 1)
             ELSE Frac(100 * period * (gains + losses) - 100 * period * losses,
                       period * (gains + losses))

RsiIdle ==
    /\ rsiPrices = <<>>
    /\ rsi = calculateRSI(<<>>, RsiPeriod)

----------------------------------------------------------------------------
(* Black-Scholes Greeks *)

\* Reals are fixed-point numbers in units of 1/GreekScale; spot and strike
\* are whole dollars.
Mul(a, b) == (a * b) \div GreekScale
Div(a, b) == (a * GreekScale) \div b

\* a literal given in units of 1/10000
Coef(n) == (n * GreekScale) \div 10000

\* Math.exp(x) as the series 1 + x + x^2/2! + ..., from term k on
RECURSIVE ExpSeries(_, _, _)
ExpSeries(x, k, term) ==
    IF k > ExpTerms THEN 0
    ELSE term + ExpSeries(x, k + 1, Mul(term, x) \div (k + 1))

MathExp(x) == ExpSeries(x, 0, GreekScale)

\* Math.log(S / K) as 2 * (z + z^3/3 + z^5/5 + ...), z = (S - K) / (S + K)
RECURSIVE LogSeries(_, _, _)
LogSeries(z, k, power) ==
    IF k >= LogTerms THEN 0
    ELSE power \div (2 * k + 1) + LogSeries(z, k + 1, Mul(Mul(power, z), z))

MathLog(S, K) == LET z == Div(S - K, S + K) IN 2 * LogSeries(z, 0, z)

\* Math.sqrt(x)
MathSqrt(x) ==
    CHOOSE y \in 0..(2 * GreekScale) :
        y * y <= x * GreekScale /\ (y + 1) * (y + 1) > x * GreekScale

normalCDF(x) ==
    LET t == Div(GreekScale, GreekScale + Mul(Coef(2316), Abs(x)))
        d == Mul(Coef(3989), MathExp((-Mul(x, x)) \div 2))
        poly == Coef(3194) + Mul(t, -Coef(3566) + Mul(t, Coef(17815)
                    + Mul(t, -Coef(18213) + Mul(t, Coef(13303)))))
        pp == Mul(Mul(d, t), poly)
    IN  IF x > 0 THEN GreekScale - pp ELSE pp

\* Math.exp(-0.5 * x * x) / Math.sqrt(2 * Math.PI)
normalPDF(x) == Div(MathExp((-Mul(x, x)) \div 2), Coef(25066))

ZeroGreeks == [delta |-> 0, gamma |-> 0, vega |-> 0, theta |-> 0]

\* the delta of a put computed like the delta of a call
PutDelta_LikeCall(nd1) == nd1

PutDelta(nd1) == nd1 - GreekScale

calculateGreeks(S, K, T, r, sigma, isCall) ==
    IF T <= 0 \/ S = 0 \/ sigma = 0 THEN ZeroGreeks
    ELSE LET sqrtT == MathSqrt(T)
             d1 == Div(MathLog(S, K) + Mul(r + Mul(sigma, sigma) \div 2, T),
                       Mul(sigma, sqrtT))
             d2 == d1 - Mul(sigma, sqrtT)
             decay == Div(S * Mul(normalPDF(d1), sigma), 2 * sqrtT)
             carry == Mul(r * K, MathExp(-Mul(r, T)))
         IN  [delta |-> IF isCall THEN normalCDF(d1) ELSE PutDelta(normalCDF(d1)),
              gamma |-> Div(normalPDF(d1), S * Mul(sigma, sqrtT)),
              vega |-> (S * Mul(normalPDF(d1), sqrtT)) \div 100,
              theta |-> IF isCall
                        THEN (-decay - Mul(carry, normalCDF(d2))) \div 365
                        ELSE (-decay + Mul(carry, normalCDF(-d2))) \div 365]

\* the inputs of the Greeks specification: spot and strike in dollars, time
\* in quarters of a year, rate and volatility in hundredths
GreekSpots == {0, 90, 100, 110}
GreekStrikes == {100, 105}
GreekQuarters == {-4, 0, 1, 4}
GreekRates == {0, 5}
GreekSigmas == {0, 20, 40}

NoGreekInput == [S |-> 0, K |-> 0, T |-> 0, r |-> 0, sigma |-> 0]

GreeksIdle ==
    /\ greekInput = NoGreekInput
    /\ greeks = Null

----------------------------------------------------------------------------
(* Market data polling of the dashboard *)

\* the hardcoded fallbacks, in hundredths
HardSpy == 59542
HardVix == 1423
HardSkew == 13570

\* what a proxy can answer: a price, only a fallback field, or an exception
\* (values in hundredths)
ProxyAnswers(prices, fallback) ==
    {[kind |-> "price", value |-> v] : v \in prices}
    \cup {[kind |-> "fallback", value |-> fallback], [kind |-> "throw", value |-> 0]}

SpyAnswers == ProxyAnswers({60000, 60125}, 59000)
VixAnswers == ProxyAnswers({1500, 2600}, 1400)
SkewAnswers == ProxyAnswers({13000, 14100}, 13500)

NoAnswer == [kind |-> "none", value |-> 0]

\* the value an instrument holds after one pass of fetchMarketData: the price
\* delivered, else (after the proxy's fallback, if any, was set) the hardcoded
\* fallback set in the finally block
ValueAfter(answer, hard) ==
    IF answer.kind = "price" THEN Num(answer.value) ELSE Num(hard)

\* setApiStatus(prev => ({...prev, x: true})) runs only for a delivered price
StatusAfter(prev, answer) == IF answer.kind = "price" THEN TRUE ELSE prev

FetchIdle ==
    /\ spyPrice = Null
    /\ vixPrice = Null
    /\ skewValue = Null
    /\ apiStatus = [spy |-> FALSE, vix |-> FALSE, skew |-> FALSE]
    /\ proxyResponses = [spy |-> NoAnswer, vix |-> NoAnswer, skew |-> NoAnswer]

----------------------------------------------------------------------------
(* The structure hooks of MarketStructureAnalysis *)

Bar(c, t) == [close |-> c, timestamp |-> t]

EmptySwings == [highs |-> <<>>, lows |-> <<>>,
                current |-> [trend |-> "neutral", strength |-> 0]]

\* the memoised values for the props (data, spot): each hook reads the
\* values of the hooks it depends on
Rendered(data, spot) ==
    /\ processedData' = ProcessData(data, spot)
    /\ swingAnalysis' = detectSwingPoints(processedData')
    /\ bosAnalysis' = detectBreakOfStructure(processedData', swingAnalysis')
    /\ srLevels' = calculateSupportResistance(processedData', swingAnalysis', spot)

\* the structure hooks before any price data arrives
StructureIdle ==
    /\ priceData = <<>>
    /\ currentPrice \in SpotPrices
    /\ processedData = <<>>
    /\ swingAnalysis = EmptySwings
    /\ bosAnalysis = [bos |-> <<>>, choch |-> <<>>]
    /\ srLevels = <<>>

InitStructure ==
    /\ StructureIdle
    /\ VolumeIdle
    /\ WallsIdle
    /\ DealerIdle
    /\ CorrelationIdle
    /\ StochasticIdle
    /\ PredictionIdle
    /\ RsiIdle
    /\ GreeksIdle
    /\ FetchIdle
    /\ pc = "structure"

\* the parent passes a series one bar longer; the hooks recompute
AppendBar ==
    /\ pc = "structure"
    /\ Len(priceData) < MaxBars
    /\ \E c \in Closes :
         /\ priceData' = Append(priceData, Bar(c, Len(priceData)))
         /\ Rendered(priceData', currentPrice)
    /\ UNCHANGED <<currentPrice, pc, volumeVars, wallVars, dealerVars, corrVars, stochVars, predVars, rsiVars, greekVars, fetchVars>>

NextStructure == AppendBar

SpecStructure == InitStructure /\ [][NextStructure]_vars

\* the volume-profile hook alone
InitVolume ==
    /\ StructureIdle
    /\ VolumeIdle
    /\ WallsIdle
    /\ DealerIdle
    /\ CorrelationIdle
    /\ StochasticIdle
    /\ PredictionIdle
    /\ RsiIdle
    /\ GreeksIdle
    /\ FetchIdle
    /\ pc = "volume"

\* the series grows by one bar; the hook recomputes
AppendProfileBar ==
    /\ pc = "volume"
    /\ Len(profileData) < MaxProfileBars
    /\ \E c \in ProfileCloses, v \in 0..MaxVolume :
         /\ profileData' = Append(profileData, VolumeBar(c, v, Len(profileData)))
         /\ volumeProfile' = calculateVolumeProfile(profileData')
    /\ UNCHANGED <<structureVars, wallVars, dealerVars, corrVars, stochVars, predVars, rsiVars, greekVars, fetchVars, pc>>

NextVolume == AppendProfileBar

SpecVolume == InitVolume /\ [][NextVolume]_vars

\* the states Math.random() can be in when calculateOptionsWalls is called
\* with the chain options; a non-empty chain draws nothing
Seeds(options) == IF Len(options) = 0 THEN 0..(RandDen - 1) ELSE {0}

\* the options hook alone, before the first render
InitWalls ==
    /\ priceData = <<>>
    /\ currentPrice \in WallSpots
    /\ processedData = <<>>
    /\ swingAnalysis = EmptySwings
    /\ bosAnalysis = [bos |-> <<>>, choch |-> <<>>]
    /\ srLevels = <<>>
    /\ VolumeIdle
    /\ WallsIdle
    /\ DealerIdle
    /\ CorrelationIdle
    /\ StochasticIdle
    /\ PredictionIdle
    /\ RsiIdle
    /\ GreeksIdle
    /\ FetchIdle
    /\ pc = "walls"

\* the parent passes a chain one contract longer; the hook recomputes
AppendContract ==
    /\ pc = "walls"
    /\ Len(optionsData) < MaxContracts
    /\ \E strike \in WallStrikes, type \in WallTypes, n \in 1..MaxOI :
         /\ optionsData' = Append(optionsData, Contract(strike, type, n, 1))
         /\ \E seed \in Seeds(optionsData') :
               optionsWalls' = calculateOptionsWalls(optionsData', currentPrice, seed)
    /\ UNCHANGED <<structureVars, volumeVars, dealerVars, corrVars, stochVars, predVars, rsiVars, greekVars, fetchVars, pc>>

\* the component renders with a currentPrice prop; the hook recomputes
ChangePrice ==
    /\ pc = "walls"
    /\ \E spot \in WallSpots, seed \in Seeds(optionsData) :
         /\ currentPrice' = spot
         /\ optionsWalls' = calculateOptionsWalls(optionsData, spot, seed)
    /\ UNCHANGED <<priceData, processedData, swingAnalysis, bosAnalysis, srLevels,
                   optionsData, volumeVars, dealerVars, corrVars, stochVars, predVars, rsiVars, greekVars, fetchVars, pc>>

NextWalls == AppendContract \/ ChangePrice

SpecWalls == InitWalls /\ [][NextWalls]_vars

\* the dealer metrics of the dashboard alone
InitDealer ==
    /\ priceData = <<>>
    /\ currentPrice \in DealerSpots
    /\ processedData = <<>>
    /\ swingAnalysis = EmptySwings
    /\ bosAnalysis = [bos |-> <<>>, choch |-> <<>>]
    /\ srLevels = <<>>
    /\ VolumeIdle
    /\ WallsIdle
    /\ DealerIdle
    /\ CorrelationIdle
    /\ StochasticIdle
    /\ PredictionIdle
    /\ RsiIdle
    /\ GreeksIdle
    /\ FetchIdle
    /\ pc = "dealer"

\* the chain grows by one contract; the metrics are recomputed
AppendDealerContract ==
    /\ pc = "dealer"
    /\ Len(optionsData) < MaxContracts
    /\ \E strike \in DealerStrikes, type \in DealerTypes, n \in 1..MaxOI, gamma \in DealerGammas :
         /\ optionsData' = Append(optionsData, Contract(strike, type, n, gamma))
         /\ dealerMetrics' = calculateDealerMetrics(optionsData', currentPrice)
    /\ UNCHANGED <<structureVars, volumeVars, optionsWalls, corrVars, stochVars, predVars, rsiVars, greekVars, fetchVars, pc>>

NextDealer == AppendDealerContract

SpecDealer == InitDealer /\ [][NextDealer]_vars

\* the correlation functions alone
InitCorrelation ==
    /\ StructureIdle
    /\ VolumeIdle
    /\ WallsIdle
    /\ DealerIdle
    /\ CorrelationIdle
    /\ StochasticIdle
    /\ PredictionIdle
    /\ RsiIdle
    /\ GreeksIdle
    /\ FetchIdle
    /\ pc = "correlation"

CorrValues == {v \in (-MaxCorrValue)..MaxCorrValue : v # 0}

\* the series grows by one row; both functions are applied to it
AppendCorrPoint ==
    /\ pc = "correlation"
    /\ Len(corrSeries) < MaxCorrLen
    /\ \E spy \in 1..MaxCorrValue, vix \in CorrValues :
         corrSeries' = Append(corrSeries,
                           [timestamp |-> Len(corrSeries), spy |-> spy, vix |-> vix])
    /\ correlationData' = calculateRollingCorrelation(corrSeries', CorrWindow)
    /\ correlation' = calculateCorrelation([k \in 1..Len(corrSeries') |-> corrSeries'[k].spy],
                                           [k \in 1..Len(corrSeries') |-> corrSeries'[k].vix])
    /\ UNCHANGED <<structureVars, volumeVars, wallVars, dealerVars, stochVars,
                   predVars, rsiVars, greekVars, fetchVars, pc>>

NextCorrelation == AppendCorrPoint

SpecCorrelation == InitCorrelation /\ [][NextCorrelation]_vars

\* the stochastic oscillator alone
InitStochastic ==
    /\ StructureIdle
    /\ VolumeIdle
    /\ WallsIdle
    /\ DealerIdle
    /\ CorrelationIdle
    /\ StochasticIdle
    /\ PredictionIdle
    /\ RsiIdle
    /\ GreeksIdle
    /\ FetchIdle
    /\ pc = "stochastic"

\* the series grows by one bar with low <= close <= high; the oscillator is
\* recomputed over it
AppendStochBar ==
    /\ pc = "stochastic"
    /\ Len(stochBars) < MaxStochBars
    /\ \E low \in 1..MaxStochPrice, close \in 1..MaxStochPrice, high \in 1..MaxStochPrice :
         /\ low <= close /\ close <= high
         /\ stochBars' = Append(stochBars, [high |-> high, low |-> low, close |-> close])
    /\ stochastic' = calculateStochastic([k \in 1..Len(stochBars') |-> stochBars'[k].high],
                                         [k \in 1..Len(stochBars') |-> stochBars'[k].low],
                                         [k \in 1..Len(stochBars') |-> stochBars'[k].close],
                                         StochPeriod)
    /\ UNCHANGED <<structureVars, volumeVars, wallVars, dealerVars, corrVars,
                   predVars, rsiVars, greekVars, fetchVars, pc>>

NextStochastic == AppendStochBar

SpecStochastic == InitStochastic /\ [][NextStochastic]_vars

----------------------------------------------------------------------------
(* The end-to-end scenario: RiseLen rising bars, then FlatLen constant bars *)

\* generatePrediction alone
InitPrediction ==
    /\ StructureIdle
    /\ VolumeIdle
    /\ WallsIdle
    /\ DealerIdle
    /\ CorrelationIdle
    /\ StochasticIdle
    /\ PredictionIdle
    /\ RsiIdle
    /\ GreeksIdle
    /\ FetchIdle
    /\ pc = "prediction"

\* the dashboard calls generatePrediction once metrics have arrived; the
\* clock is read for the timestamp
Predict ==
    /\ pc = "prediction"
    /\ predInput.volMetrics = Null
    /\ predInput.dealerMetrics = Null
    /\ \E vol \in VolMetricsInputs, dealer \in DealerInputs, spy \in PredSpots,
          skew \in SkewValues, now \in 0..MaxClock :
         /\ predInput' = [volMetrics |-> vol, dealerMetrics |-> dealer,
                          spy |-> spy, skew |-> skew]
         /\ prediction' = generatePrediction(vol, dealer, spy, skew, now)
    /\ UNCHANGED <<structureVars, volumeVars, wallVars, dealerVars, corrVars,
                   stochVars, rsiVars, greekVars, fetchVars, pc>>

NextPrediction == Predict

SpecPrediction == InitPrediction /\ [][NextPrediction]_vars

\* calculateRSI alone
InitRsi ==
    /\ StructureIdle
    /\ VolumeIdle
    /\ WallsIdle
    /\ DealerIdle
    /\ CorrelationIdle
    /\ StochasticIdle
    /\ PredictionIdle
    /\ RsiIdle
    /\ GreeksIdle
    /\ FetchIdle
    /\ pc = "rsi"

\* the series grows by one price; the RSI is recomputed
AppendRsiPrice ==
    /\ pc = "rsi"
    /\ Len(rsiPrices) < MaxRsiLen
    /\ \E price \in 0..MaxRsiPrice :
         /\ rsiPrices' = Append(rsiPrices, price)
         /\ rsi' = calculateRSI(rsiPrices', RsiPeriod)
    /\ UNCHANGED <<structureVars, volumeVars, wallVars, dealerVars, corrVars,
                   stochVars, predVars, greekVars, fetchVars, pc>>

NextRsi == AppendRsiPrice

SpecRsi == InitRsi /\ [][NextRsi]_vars

\* calculateGreeks alone
InitGreeks ==
    /\ StructureIdle
    /\ VolumeIdle
    /\ WallsIdle
    /\ DealerIdle
    /\ CorrelationIdle
    /\ StochasticIdle
    /\ PredictionIdle
    /\ RsiIdle
    /\ GreeksIdle
    /\ FetchIdle
    /\ pc = "greeks"

\* the Greeks of a call and of a put are computed for the same inputs
ComputeGreeks ==
    /\ pc = "greeks"
    /\ greeks = Null
    /\ \E S \in GreekSpots, K \in GreekStrikes, q \in GreekQuarters,
          r \in GreekRates, sigma \in GreekSigmas :
         LET T == (q * GreekScale) \div 4
             rate == (r * GreekScale) \div 100
             vol == (sigma * GreekScale) \div 100
         IN  /\ greekInput' = [S |-> S, K |-> K, T |-> T, r |-> rate, sigma |-> vol]
             /\ greeks' = [call |-> calculateGreeks(S, K, T, rate, vol, TRUE),
                           put |-> calculateGreeks(S, K, T, rate, vol, FALSE)]
    /\ UNCHANGED <<structureVars, volumeVars, wallVars, dealerVars, corrVars,
                   stochVars, predVars, rsiVars, fetchVars, pc>>

NextGreeks == ComputeGreeks

SpecGreeks == InitGreeks /\ [][NextGreeks]_vars

\* the dashboard after mount, before the first poll completes
InitFetch ==
    /\ StructureIdle
    /\ VolumeIdle
    /\ WallsIdle
    /\ DealerIdle
    /\ CorrelationIdle
    /\ StochasticIdle
    /\ PredictionIdle
    /\ RsiIdle
    /\ GreeksIdle
    /\ FetchIdle
    /\ pc = "fetch"

\* one completed run of fetchMarketData (on mount, then every 300000 ms)
FetchMarketData ==
    /\ pc = "fetch"
    /\ \E spy \in SpyAnswers, vix \in VixAnswers, skew \in SkewAnswers :
         /\ proxyResponses' = [spy |-> spy, vix |-> vix, skew |-> skew]
         /\ spyPrice' = ValueAfter(spy, HardSpy)
         /\ vixPrice' = ValueAfter(vix, HardVix)
         /\ skewValue' = ValueAfter(skew, HardSkew)
         /\ apiStatus' = [spy |-> StatusAfter(apiStatus.spy, spy),
                          vix |-> StatusAfter(apiStatus.vix, vix),
                          skew |-> StatusAfter(apiStatus.skew, skew)]
    /\ UNCHANGED <<structureVars, volumeVars, wallVars, dealerVars, corrVars,
                   stochVars, predVars, rsiVars, greekVars, pc>>

NextFetch == FetchMarketData

SpecFetch == InitFetch /\ [][NextFetch]_vars

\* a series that turns at fixed bars: peaks at bars 2, 5, 8, troughs at bars
\* 3, 6, 9, the mid price elsewhere; bar 4 may come without a close
ZigzagPeaks == {505, 506, 507}
ZigzagTroughs == {499, 500, 501}
ZigzagMid == 503

ZigzagCloses(k) ==
    IF k \in {2, 5, 8} THEN ZigzagPeaks
    ELSE IF k \in {3, 6, 9} THEN ZigzagTroughs
    ELSE IF k = 4 THEN {0, ZigzagMid}
    ELSE {ZigzagMid}

InitZigzag ==
    /\ StructureIdle
    /\ VolumeIdle
    /\ WallsIdle
    /\ DealerIdle
    /\ CorrelationIdle
    /\ StochasticIdle
    /\ PredictionIdle
    /\ RsiIdle
    /\ GreeksIdle
    /\ FetchIdle
    /\ pc = "zigzag"

\* the parent passes the series one bar longer; the hooks recompute
AppendZigzagBar ==
    /\ pc = "zigzag"
    /\ Len(priceData) < ZigzagLen
    /\ \E c \in ZigzagCloses(Len(priceData)) :
         /\ priceData' = Append(priceData, Bar(c, Len(priceData)))
         /\ Rendered(priceData', currentPrice)
    /\ UNCHANGED <<currentPrice, pc, volumeVars, wallVars, dealerVars, corrVars,
                   stochVars, predVars, rsiVars, greekVars, fetchVars>>

NextZigzag == AppendZigzagBar

SpecZigzag == InitZigzag /\ [][NextZigzag]_vars

\* a series with a swing high at bars 2, 5, 8, ... and a swing low at bars
\* 3, 6, 9, ...: each peak is either a new level LadderStep above the last
\* rung or a retest of the first peak, and likewise each trough
LadderMid == 502
LadderPeak == 506
LadderTrough == 497
LadderStep == 3

LadderCloses(k) ==
    IF k % 3 = 2 THEN {LadderPeak + LadderStep * (k \div 3), LadderPeak + 1}
    ELSE IF k % 3 = 0 /\ k >= 3
         THEN {LadderTrough - LadderStep * ((k \div 3) - 1), LadderTrough - 1}
    ELSE {LadderMid}

InitLadder ==
    /\ StructureIdle
    /\ VolumeIdle
    /\ WallsIdle
    /\ DealerIdle
    /\ CorrelationIdle
    /\ StochasticIdle
    /\ PredictionIdle
    /\ RsiIdle
    /\ GreeksIdle
    /\ FetchIdle
    /\ pc = "ladder"

\* the parent passes the series one bar longer; the hooks recompute
AppendLadderBar ==
    /\ pc = "ladder"
    /\ Len(priceData) < LadderLen
    /\ \E c \in LadderCloses(Len(priceData)) :
         /\ priceData' = Append(priceData, Bar(c, Len(priceData)))
         /\ Rendered(priceData', currentPrice)
    /\ UNCHANGED <<currentPrice, pc, volumeVars, wallVars, dealerVars, corrVars,
                   stochVars, predVars, rsiVars, greekVars, fetchVars>>

NextLadder == AppendLadderBar

SpecLadder == InitLadder /\ [][NextLadder]_vars

\* close of bar k (0-based): rises by stepA and stepB in turn from start, then
\* stays at the last rising close minus drop
ScenarioClose(start, stepA, stepB, drop, k) ==
    LET rise(j) == start + ((j + 1) \div 2) * stepA + (j \div 2) * stepB
    IN  IF k < RiseLen THEN rise(k) ELSE rise(RiseLen - 1) - drop

ScenarioBars(start, stepA, stepB, drop) ==
    [k \in 1..(RiseLen + FlatLen) |->
        Bar(ScenarioClose(start, stepA, stepB, drop, k - 1), k - 1)]

InitScenario ==
    /\ \E start \in Closes, stepA \in 1..MaxStep, stepB \in 1..MaxStep, drop \in 0..MaxDrop :
          priceData = ScenarioBars(start, stepA, stepB, drop)
    /\ currentPrice \in {0} \cup SpotPrices
    /\ processedData = <<>>
    /\ swingAnalysis = EmptySwings
    /\ bosAnalysis = [bos |-> <<>>, choch |-> <<>>]
    /\ srLevels = <<>>
    /\ VolumeIdle
    /\ WallsIdle
    /\ DealerIdle
    /\ CorrelationIdle
    /\ StochasticIdle
    /\ PredictionIdle
    /\ RsiIdle
    /\ GreeksIdle
    /\ FetchIdle
    /\ pc = "scenario"

\* the component renders the scenario series
AnalyzeScenario ==
    /\ pc = "scenario"
    /\ Rendered(priceData, currentPrice)
    /\ pc' = "analyzed"
    /\ UNCHANGED <<priceData, currentPrice, volumeVars, wallVars, dealerVars, corrVars, stochVars, predVars, rsiVars, greekVars, fetchVars>>

NextScenario == AnalyzeScenario

SpecScenario == InitScenario /\ [][NextScenario]_vars

----------------------------------------------------------------------------
(* Properties *)

\* closes rise strictly over the first RiseLen bars and are constant over the
\* FlatLen bars that follow
IsRiseThenFlat(data) ==
    /\ Len(data) = RiseLen + FlatLen
    /\ \A k \in 1..(RiseLen - 1) : data[k].close < data[k + 1].close
    /\ \A k \in (RiseLen + 1)..(RiseLen + FlatLen - 1) : data[k].close = data[k + 1].close

BosIndexes(type) ==
    {bosAnalysis.bos[k].index : k \in {j \in 1..Len(bosAnalysis.bos) :
                                          bosAnalysis.bos[j].type = type}}

\* C1 as stated: a series that rises strictly for 60 bars and is then constant
\* for 10 bars is classified 'uptrend' with strength 0.8 and has a bullish
\* break at the transition (the last rising bar or the first flat bar).
C1_Original ==
    (pc = "analyzed" /\ IsRiseThenFlat(processedData)) =>
        /\ swingAnalysis.current = [trend |-> "uptrend", strength |-> 8]
        /\ BosIndexes("bullish") \cap {RiseLen - 1, RiseLen} # {}

\* C1 amended: such a series has at most one swing high (the last rising bar,
\* when the flat level lies below it) and no swing low, so the trend is
\* 'neutral' with strength 0 and no break of structure is emitted.
C1_Amended ==
    (pc = "analyzed" /\ IsRiseThenFlat(processedData)) =>
        /\ Len(swingAnalysis.highs) <= 1
        /\ \A k \in 1..Len(swingAnalysis.highs) : swingAnalysis.highs[k].index = RiseLen - 1
        /\ swingAnalysis.lows = <<>>
        /\ swingAnalysis.current = [trend |-> "neutral", strength |-> 0]
        /\ bosAnalysis.bos = <<>>

C1_Witness ==
    /\ pc = "analyzed"
    /\ IsRiseThenFlat(processedData)
    /\ Len(swingAnalysis.highs) = 1
    /\ swingAnalysis.current.trend = "neutral"

\* the clustering of the swing points of the current render
Clustering == ClusterPoints(AllPoints(swingAnalysis), 1, <<>>, <<>>)

\* prices a and b differ by less than 0.5% of the smaller one
WithinHalfPercent(a, b) == Abs(a - b) * 1000 < 5 * (IF a < b THEN a ELSE b)

\* C3 as stated: any two swing points within 0.5% of each other are in the
\* same support/resistance cluster.
C3_Original ==
    pc = "structure" =>
        LET points == AllPoints(swingAnalysis)
            assigned == Clustering.assigned
        IN  \A j, k \in 1..Len(points) :
                WithinHalfPercent(points[j].price, points[k].price)
                    => assigned[j] = assigned[k]

\* C3 amended: when all swing points are pairwise within 0.5% of each other
\* they merge into exactly one cluster, whose touches count them all.
C3_Amended ==
    pc = "structure" =>
        LET points == AllPoints(swingAnalysis)
            clustering == Clustering
        IN  (/\ Len(points) >= 1
             /\ \A j, k \in 1..Len(points) :
                    WithinHalfPercent(points[j].price, points[k].price))
            => /\ Len(clustering.clusters) = 1
               /\ clustering.clusters[1].touches = Len(points)
               /\ Len(srLevels) = 1

C3_Witness ==
    /\ pc = "structure"
    /\ Len(swingAnalysis.highs) >= 1
    /\ Len(swingAnalysis.lows) >= 1
    /\ \A j, k \in 1..Len(AllPoints(swingAnalysis)) :
           WithinHalfPercent(AllPoints(swingAnalysis)[j].price,
                             AllPoints(swingAnalysis)[k].price)
    /\ \E j, k \in 1..Len(AllPoints(swingAnalysis)) :
           AllPoints(swingAnalysis)[j].price # AllPoints(swingAnalysis)[k].price
    /\ Len(srLevels) = 1
    /\ srLevels[1].touches = Len(AllPoints(swingAnalysis))

\* the swing of swingList with the largest index below i among the last three
\* swings, Null if none
MostRecentBefore(swingList, i) ==
    LET last3 == SliceLast(swingList, 3)
        before == {k \in 1..Len(last3) : last3[k].index < i}
    IN  IF before = {} THEN Null
        ELSE last3[CHOOSE k \in before : \A j \in before : last3[j].index <= last3[k].index]

\* C6 as stated: when the scan runs, bar i carries a bullish break exactly when
\* the most recent swing high before i exists, the previous close is at or
\* below its price and the close of i exceeds it; symmetrically for a bearish
\* break against the most recent swing low before i.
C6_Original ==
    (pc = "structure" /\ Len(swingAnalysis.highs) >= 2 /\ Len(swingAnalysis.lows) >= 2) =>
        \A i \in 1..(Len(processedData) - 1) :
            LET cur == At(processedData, i).close
                prevPrice == At(processedData, i - 1).close
                high == MostRecentBefore(swingAnalysis.highs, i)
                low == MostRecentBefore(swingAnalysis.lows, i)
            IN  /\ (i \in BosIndexes("bullish"))
                     <=> (high # Null /\ prevPrice <= high.price /\ cur > high.price)
                /\ (i \in BosIndexes("bearish"))
                     <=> (low # Null /\ prevPrice >= low.price /\ cur < low.price)

\* the summed volume of the bars of data
RECURSIVE TotalVolume(_, _)
TotalVolume(data, k) ==
    IF k > Len(data) THEN 0 ELSE data[k].volume + TotalVolume(data, k + 1)

\* C2 as stated: for a non-empty series the bin volumes add up to the total
\* volume of the input bars (every bar is counted in exactly one bin).
C2_Original ==
    (pc = "volume" /\ Len(profileData) > 0
        /\ \A k \in 1..Len(profileData) : profileData[k].volume > 0) =>
        SumBins(volumeProfile.profile, 1) = TotalVolume(profileData, 1)

\* total pain at candidate strike c over the set of walls, computed
\* exhaustively: calls of the strikes below c, puts of the strikes above c
RECURSIVE ExhaustivePain(_, _, _)
ExhaustivePain(walls, c, idx) ==
    IF idx = {} THEN 0
    ELSE LET k == CHOOSE x \in idx : TRUE
             below == IF walls[k].strike < c THEN walls[k].callOI * (c - walls[k].strike) ELSE 0
             above == IF walls[k].strike > c THEN walls[k].putOI * (walls[k].strike - c) ELSE 0
         IN  below + above + ExhaustivePain(walls, c, idx \ {k})

PainOf(walls, c) == ExhaustivePain(walls, c, 1..Len(walls))

\* C4: maxPain is a strike of the chain whose total pain is at most the total
\* pain of every strike of the chain (the exhaustive minimum).
C4_MaxPainIsMinimum ==
    (pc = "walls" /\ optionsWalls # Null) =>
        LET walls == optionsWalls.walls
            maxPain == optionsWalls.maxPain
        IN  /\ Len(walls) > 0
            /\ maxPain # Null
            /\ \E k \in 1..Len(walls) : walls[k].strike = maxPain.v
            /\ \A k \in 1..Len(walls) :
                   PainOf(walls, maxPain.v) <= PainOf(walls, walls[k].strike)

\* a chain of three strikes whose minimum pain is at the middle strike only
C4_Witness ==
    /\ pc = "walls"
    /\ Len(optionsData) = 3
    /\ Len(optionsWalls.walls) = 3
    /\ optionsWalls.maxPain = Num(optionsWalls.walls[2].strike)
    /\ PainOf(optionsWalls.walls, optionsWalls.walls[2].strike)
           < PainOf(optionsWalls.walls, optionsWalls.walls[1].strike)
    /\ PainOf(optionsWalls.walls, optionsWalls.walls[2].strike)
           < PainOf(optionsWalls.walls, optionsWalls.walls[3].strike)

\* C10 as stated: with an empty chain the result is flagged: it has no walls
\* and no maxPain, or it carries source = "synthetic".
C10_Original ==
    (pc = "walls" /\ optionsData = <<>> /\ optionsWalls # Null) =>
        \/ (optionsWalls.walls = <<>> /\ optionsWalls.maxPain = Null)
        \/ ("source" \in DOMAIN optionsWalls /\ optionsWalls.source = "synthetic")

\* x and y have opposite signs
SignsDiffer(x, y) == (x < 0 /\ y > 0) \/ (x > 0 /\ y < 0)

\* C5: the strikes are scanned in ascending strike order; gammaFlipPoint is
\* the mean of the first adjacent pair of strikes whose netGamma have opposite
\* signs, and null (never 0) when there is no such pair.
C5_GammaFlip ==
    (pc = "dealer" /\ dealerMetrics # Null) =>
        LET strikes == dealerMetrics.strikes
            flips == {i \in 1..(Len(strikes) - 1) :
                         SignsDiffer(strikes[i].netGamma, strikes[i + 1].netGamma)}
        IN  /\ \A i \in 1..(Len(strikes) - 1) : strikes[i].strike < strikes[i + 1].strike
            /\ {strikes[i].strike : i \in 1..Len(strikes)}
                   = {optionsData[k].strike : k \in 1..Len(optionsData)}
            /\ flips = {} => dealerMetrics.gammaFlipPoint = Null
            /\ flips # {} =>
                   LET i == CHOOSE x \in flips : \A y \in flips : x <= y
                   IN  /\ dealerMetrics.gammaFlipPoint # Null
                       /\ dealerMetrics.gammaFlipPoint.n * 2 * StrikeUnit
                              = (strikes[i].strike + strikes[i + 1].strike)
                                  * dealerMetrics.gammaFlipPoint.d
            /\ dealerMetrics.gammaFlipPoint # Null => dealerMetrics.gammaFlipPoint.n # 0

\* three strikes whose netGamma signs alternate: the flip is the mean of the
\* first pair, 500 and 505, i.e. 502.5
C5_Witness ==
    /\ pc = "dealer"
    /\ dealerMetrics # Null
    /\ Len(dealerMetrics.strikes) = 3
    /\ SignsDiffer(dealerMetrics.strikes[1].netGamma, dealerMetrics.strikes[2].netGamma)
    /\ SignsDiffer(dealerMetrics.strikes[2].netGamma, dealerMetrics.strikes[3].netGamma)
    /\ dealerMetrics.gammaFlipPoint # Null
    /\ dealerMetrics.gammaFlipPoint.n * 2 = 1005 * dealerMetrics.gammaFlipPoint.d

RECURSIVE Gcd(_, _)
Gcd(a, b) == IF b = 0 THEN a ELSE Gcd(b, a % b)

\* the value of the correlation r = num / sqrt(den2): its sign and its square
\* in lowest terms
CorrValue(r) ==
    LET g == Gcd(r.num * r.num, r.den2)
    IN  <<IF r.num > 0 THEN 1 ELSE IF r.num < 0 THEN -1 ELSE 0,
          (r.num * r.num) \div g, r.den2 \div g>>

CorrIsOne(r) == r.num > 0 /\ r.num * r.num = r.den2
CorrIsMinusOne(r) == r.num < 0 /\ r.num * r.num = r.den2

SpyColumn == [k \in 1..Len(corrSeries) |-> corrSeries[k].spy]
VixColumn == [k \in 1..Len(corrSeries) |-> corrSeries[k].vix]

\* C7 as stated: one point per index i >= W, and the correlation of the point
\* of index i is taken over the W rows that end at index i, row i included.
C7_Original ==
    pc = "correlation" =>
        /\ Len(correlationData)
               = (IF Len(corrSeries) > CorrWindow THEN Len(corrSeries) - CorrWindow ELSE 0)
        /\ \A k \in 1..Len(correlationData) :
               LET i == CorrWindow + k - 1
                   trailing == Slice(corrSeries, i - CorrWindow + 1, i + 1)
               IN  /\ correlationData[k].timestamp = At(corrSeries, i).timestamp
                   /\ CorrValue(correlationData[k].spyVixCorr)
                          = CorrValue(calculateCorrelation(
                                [j \in 1..Len(trailing) |-> trailing[j].spy],
                                [j \in 1..Len(trailing) |-> trailing[j].vix]))

IsConstant(s) == \A j, k \in 1..Len(s) : s[j] = s[k]

\* C8 as stated: for every non-empty series A, correlation(A, A) = 1 and
\* correlation(A, -A) = -1.
C8_Original ==
    (pc = "correlation" /\ Len(corrSeries) > 0) =>
        /\ (\A k \in 1..Len(corrSeries) : corrSeries[k].vix = corrSeries[k].spy)
               => CorrIsOne(correlation)
        /\ (\A k \in 1..Len(corrSeries) : corrSeries[k].vix = -corrSeries[k].spy)
               => CorrIsMinusOne(correlation)

\* C8 amended: for every series A that is not constant, correlation(A, A) = 1
\* and correlation(A, -A) = -1; for a constant A (every one-element series
\* included) both are 0.
C8_Amended ==
    (pc = "correlation" /\ Len(corrSeries) > 0) =>
        /\ (\A k \in 1..Len(corrSeries) : corrSeries[k].vix = corrSeries[k].spy)
               => IF IsConstant(SpyColumn) THEN correlation = ZeroCorr
                  ELSE CorrIsOne(correlation)
        /\ (\A k \in 1..Len(corrSeries) : corrSeries[k].vix = -corrSeries[k].spy)
               => IF IsConstant(SpyColumn) THEN correlation = ZeroCorr
                  ELSE CorrIsMinusOne(correlation)

C8_Witness ==
    /\ pc = "correlation"
    /\ Len(corrSeries) >= 3
    /\ ~IsConstant(SpyColumn)
    /\ \A k \in 1..Len(corrSeries) : corrSeries[k].vix = -corrSeries[k].spy
    /\ CorrIsMinusOne(correlation)

\* the extremes of the trailing window of the stochastic bars
StochHighest == MaxOf(SliceLast([k \in 1..Len(stochBars) |-> stochBars[k].high], StochPeriod))
StochLowest == MinOf(SliceLast([k \in 1..Len(stochBars) |-> stochBars[k].low], StochPeriod))
StochClose == stochBars[Len(stochBars)].close

\* the fraction or special value k is the number v
IsNumber(k, v) == k.kind = "num" /\ k.n = v * k.d

\* C9 as stated: with at least `period` points, %K is exactly 100 when the
\* latest close equals the highest high of the window and exactly 0 when it
\* equals the lowest low, for every window.
C9_Original ==
    (pc = "stochastic" /\ Len(stochBars) >= StochPeriod) =>
        /\ StochClose = StochHighest => IsNumber(stochastic.k, 100)
        /\ StochClose = StochLowest => IsNumber(stochastic.k, 0)

\* C11 as stated: two calls of calculateOptionsWalls with identical inputs (the
\* same chain, the empty one included, and the same current price) return
\* identical results.
C11_Original ==
    [][(pc = "walls" /\ optionsWalls # Null
            /\ optionsData' = optionsData /\ currentPrice' = currentPrice)
          => optionsWalls' = optionsWalls]_vars

\* the chain grows by one contract whose type is neither call nor put
AppendsUnknownType ==
    /\ Len(optionsData') = Len(optionsData) + 1
    /\ SubSeq(optionsData', 1, Len(optionsData)) = optionsData
    /\ ToLowerCase(optionsData'[Len(optionsData')].type) \notin {"call", "put"}

\* C12 as stated: adding a contract of unknown type to a (non-empty) chain
\* leaves walls, maxPain, significantWalls, supportWalls and resistanceWalls
\* unchanged, also when no other contract has its strike.
C12_Original ==
    [][(pc = "walls" /\ Len(optionsData) > 0 /\ currentPrice' = currentPrice
            /\ AppendsUnknownType)
          => optionsWalls' = optionsWalls]_vars

\* the sum of gamma * notional (weight "gamma") or delta * notional (weight
\* "delta") over the contracts of `options` from k on that have this strike and
\* this type
RECURSIVE ExposureOf(_, _, _, _, _)
ExposureOf(options, k, strike, type, weight) ==
    IF k > Len(options) THEN 0
    ELSE (IF options[k].strike = strike /\ options[k].type = type
          THEN (IF weight = "gamma" THEN options[k].gamma ELSE options[k].delta)
                   * (options[k].oi * 100 * (-1))
          ELSE 0)
         + ExposureOf(options, k + 1, strike, type, weight)

\* C13 as stated: per strike, callGamma and callDelta sum over exactly the CALL
\* contracts of the strike and putGamma and putDelta over exactly the PUT
\* contracts; a contract of any other type adds to neither bucket.
C13_Original ==
    (pc = "dealer" /\ dealerMetrics # Null) =>
        \A k \in 1..Len(dealerMetrics.strikes) :
            LET s == dealerMetrics.strikes[k]
            IN  /\ s.callGamma = ExposureOf(optionsData, 1, s.strike, "CALL", "gamma")
                /\ s.callDelta = ExposureOf(optionsData, 1, s.strike, "CALL", "delta")
                /\ s.putGamma = ExposureOf(optionsData, 1, s.strike, "PUT", "gamma")
                /\ s.putDelta = ExposureOf(optionsData, 1, s.strike, "PUT", "delta")

\* a row of the weight table: the weight and the sentiments it may carry
Row(weight, sentiments) == <<[weight |-> weight, sentiments |-> sentiments]>>

Either == {"bullish", "bearish"}

\* the rows of the table for the five factors after the dealer factor
OtherRows(in) ==
    LET vol == in.volMetrics
    IN  (IF vol.pcrVolume > 120 \/ vol.pcrVolume < 70 THEN Row(1, Either) ELSE <<>>)
        \o (IF vol.ivHVSpread > 5 \/ vol.ivHVSpread < -2 THEN Row(1, Either) ELSE <<>>)
        \o (IF vol.vixLevel > 25 THEN Row(2, {"bullish"})
            ELSE IF vol.vixLevel < 12 THEN Row(1, {"bearish"}) ELSE <<>>)
        \o (IF vol.ivSkew > 5 THEN Row(1, {"bearish"}) ELSE <<>>)
        \o (IF in.skew.v > 140 THEN Row(2, {"bearish"})
            ELSE IF in.skew.v < 120 THEN Row(1, {"bullish"}) ELSE <<>>)

\* the signals are exactly the rows, in the order of the factors
SignalsMatch(signals, rows) ==
    /\ Len(signals) = Len(rows)
    /\ \A k \in 1..Len(rows) :
           /\ signals[k].weight = rows[k].weight
           /\ signals[k].sentiment \in rows[k].sentiments

\* the scorer ran on metrics that are present, with a tail-risk index
Scored == pc = "prediction" /\ prediction # Null /\ predInput.skew # Null

\* C14 as stated: the dealer-gamma factor always contributes a signal of
\* weight 2, and the other five factors contribute by the thresholds of the
\* table; no other weight occurs.
C14_Original ==
    Scored => SignalsMatch(prediction.signals, Row(2, Either) \o OtherRows(predInput))

\* C14 amended: the dealer-gamma factor contributes weight 2 (bullish above
\* the flip point, bearish otherwise) when dealers are short gamma and a
\* bearish signal of weight 1 when they are not; the other five factors
\* contribute by the thresholds of the table; no other weight occurs.
C14_Amended ==
    Scored =>
        SignalsMatch(prediction.signals,
            (IF predInput.dealerMetrics.isShortGamma
             THEN Row(2, IF AboveFlip(predInput.spy, predInput.dealerMetrics.gammaFlipPoint)
                         THEN {"bullish"} ELSE {"bearish"})
             ELSE Row(1, {"bearish"}))
            \o OtherRows(predInput))

C14_Witness ==
    /\ Scored
    /\ ~predInput.dealerMetrics.isShortGamma
    /\ predInput.volMetrics.vixLevel > 25
    /\ predInput.skew.v > 140
    /\ Len(prediction.signals) = 6
    /\ prediction.signals[1].weight = 1
    /\ prediction.signals[4] = Signal("Elevated VIX (>25)", "bullish", 2)
    /\ prediction.signals[6] = Signal("Elevated SKEW (>140)", "bearish", 2)

\* C15: for non-null metrics the direction is BULLISH if bull > bear and
\* BEARISH otherwise (ties included); the confidence is the number
\* |bull - bear| / (bull + bear), it lies in [0, 1], and it is 0, not NaN,
\* when bull + bear = 0.
C15_DirectionAndConfidence ==
    (pc = "prediction" /\ prediction # Null) =>
        LET bull == prediction.bullishScore
            bear == prediction.bearishScore
            c == prediction.confidence
        IN  /\ bull = ScoreOf(prediction.signals, 1, "bullish")
            /\ bear = ScoreOf(prediction.signals, 1, "bearish")
            /\ prediction.prediction = (IF bull > bear THEN "BULLISH" ELSE "BEARISH")
            /\ c.kind = "num"
            /\ c.d > 0
            /\ c.n * (bull + bear) = Abs(bull - bear) * c.d
            /\ 0 <= c.n /\ c.n <= c.d
            /\ (bull + bear = 0 => c.n = 0)

\* a tie of the two scores
C15_Witness ==
    /\ pc = "prediction"
    /\ prediction # Null
    /\ prediction.bullishScore = prediction.bearishScore
    /\ prediction.bullishScore > 0
    /\ prediction.prediction = "BEARISH"
    /\ prediction.confidence = Frac(0, 2 * prediction.bullishScore)

\* the permutations of 1..n
Orders(n) == {f \in [1..n -> 1..n] : \A i, j \in 1..n : f[i] = f[j] => i = j}

\* C16 as stated: every permutation of the contracts of a chain (non-integer
\* strikes and tied total pain included) yields the same walls, maxPain,
\* significantWalls, supportWalls and resistanceWalls.
C16_Original ==
    (pc = "walls" /\ Len(optionsData) > 0) =>
        \A f \in Orders(Len(optionsData)) :
            calculateOptionsWalls([k \in 1..Len(optionsData) |-> optionsData[f[k]]],
                                  currentPrice, 0) = optionsWalls

\* C17 as stated: when all closes of a non-empty series are equal the profile
\* is a single bin that holds the whole input volume, and POC, VAH and VAL are
\* the finite price level of that bin (the common close, here in units of
\* 1/(2 * numBins)).
C17_Original ==
    (pc = "volume" /\ Len(profileData) > 0
        /\ \A k \in 1..Len(profileData) :
               /\ profileData[k].close = profileData[1].close
               /\ profileData[k].volume > 0) =>
        /\ Len(volumeProfile.profile) = 1
        /\ volumeProfile.profile[1].volume = TotalVolume(profileData, 1)
        /\ volumeProfile.poc = volumeProfile.profile[1]
        /\ volumeProfile.poc.priceLevel = 2 * numBins * profileData[1].close
        /\ volumeProfile.vah = Num(volumeProfile.poc.priceLevel)
        /\ volumeProfile.val = Num(volumeProfile.poc.priceLevel)

\* the last `RsiPeriod` deltas of the series (as many as there are, for a
\* shorter series), and the gains and losses summed over them
RsiDeltas ==
    LET n == Len(rsiPrices)
        m == IF n - 1 < RsiPeriod THEN (IF n = 0 THEN 0 ELSE n - 1) ELSE RsiPeriod
    IN  [i \in 1..m |-> rsiPrices[n - m + i] - rsiPrices[n - m + i - 1]]
RsiGains == SumSeq([i \in 1..Len(RsiDeltas) |-> IF RsiDeltas[i] > 0 THEN RsiDeltas[i] ELSE 0])
RsiLosses == SumSeq([i \in 1..Len(RsiDeltas) |-> IF RsiDeltas[i] < 0 THEN -RsiDeltas[i] ELSE 0])

\* C18: for every price series the RSI is a number in [0, 100].
C18_RsiInRange ==
    pc = "rsi" =>
        /\ rsi.kind = "num"
        /\ rsi.d > 0
        /\ 0 <= rsi.n
        /\ rsi.n <= 100 * rsi.d

\* a flat window: neither gains nor losses
C18_Witness ==
    /\ pc = "rsi"
    /\ Len(rsiPrices) >= RsiPeriod + 1
    /\ RsiGains = 0
    /\ RsiLosses = 0
    /\ IsNumber(rsi, 100)

\* C19 as stated: the RSI is exactly 50 if and only if the series has fewer
\* than period + 1 points.
C19_Original ==
    pc = "rsi" => (IsNumber(rsi, 50) <=> Len(rsiPrices) < RsiPeriod + 1)

\* C19 amended: every series with fewer than period + 1 points gives 50; a
\* series with at least period + 1 points gives 50 exactly when the gains and
\* the losses summed over the last `period` deltas are equal and positive.
C19_Amended ==
    pc = "rsi" =>
        IF Len(rsiPrices) < RsiPeriod + 1 THEN IsNumber(rsi, 50)
        ELSE (IsNumber(rsi, 50) <=> (RsiGains = RsiLosses /\ RsiLosses > 0))

C19_Witness ==
    /\ pc = "rsi"
    /\ Len(rsiPrices) >= RsiPeriod + 1
    /\ RsiGains = RsiLosses
    /\ RsiLosses > 0
    /\ IsNumber(rsi, 50)

\* C20 as stated: the RSI is exactly 100 if and only if the losses summed over
\* the last `period` deltas of the series are 0, for every series.
C20_Original ==
    (pc = "rsi" /\ Len(rsiPrices) > 0) => (IsNumber(rsi, 100) <=> RsiLosses = 0)

\* C20 amended: for a series with at least period + 1 points the RSI is
\* exactly 100 if and only if the losses summed over the last `period` deltas
\* are 0; a shorter series gives 50 whatever its losses.
C20_Amended ==
    pc = "rsi" =>
        IF Len(rsiPrices) < RsiPeriod + 1 THEN IsNumber(rsi, 50)
        ELSE (IsNumber(rsi, 100) <=> RsiLosses = 0)

\* a loss before the window and none inside it
C20_Witness ==
    /\ pc = "rsi"
    /\ Len(rsiPrices) > RsiPeriod + 1
    /\ rsiPrices[2] < rsiPrices[1]
    /\ RsiGains > 0
    /\ RsiLosses = 0
    /\ IsNumber(rsi, 100)

----------------------------------------------------------------------------
(* Put-call delta parity *)

Degenerate(in) == in.T <= 0 \/ in.S = 0 \/ in.sigma = 0

\* C21 as stated: for every input, the degenerate ones included, the delta
\* of the call minus the delta of the put is 1.
C21_Original ==
    (pc = "greeks" /\ greeks # Null)
        => greeks.call.delta - greeks.put.delta = GreekScale

\* C21 amended: the delta of the call minus the delta of the put is 1 for
\* the inputs with T > 0, S # 0 and sigma # 0; for a degenerate input both
\* deltas are 0, so their difference is 0.
C21_Amended ==
    (pc = "greeks" /\ greeks # Null)
        => IF Degenerate(greekInput)
           THEN greeks.call.delta = 0 /\ greeks.put.delta = 0
           ELSE greeks.call.delta - greeks.put.delta = GreekScale

C21_Witness ==
    /\ pc = "greeks"
    /\ greeks # Null
    /\ ~Degenerate(greekInput)
    /\ greeks.call.delta > GreekScale \div 2
    /\ greeks.call.delta < GreekScale
    /\ greeks.put.delta < 0

----------------------------------------------------------------------------
(* Data-source flags of the dashboard *)

Polled == proxyResponses.spy.kind # "none"

\* C25 as stated: after any sequence of completed polls, a flag of apiStatus
\* is true only if the value held was delivered by the proxy in the most
\* recent poll; when the most recent poll fell back to the hardcoded value
\* the flag is false.
C25_Original ==
    (pc = "fetch" /\ Polled)
        => /\ apiStatus.spy
                => (proxyResponses.spy.kind = "price" /\ spyPrice # Num(HardSpy))
           /\ apiStatus.vix
                => (proxyResponses.vix.kind = "price" /\ vixPrice # Num(HardVix))
           /\ apiStatus.skew
                => (proxyResponses.skew.kind = "price" /\ skewValue # Num(HardSkew))

----------------------------------------------------------------------------
(* Trend of the latest swings *)

LastOf(list) == list[Len(list)]
PrevOf(list) == list[Len(list) - 1]

\* C22: the trend is read from the two most recent swing highs and the two
\* most recent swing lows: uptrend with strength 0.8 exactly when the last
\* high and the last low are above the previous ones, downtrend with 0.8
\* exactly when both are below, ranging with 0.5 otherwise when two of each
\* exist, and neutral with 0 exactly when there are fewer than 2 highs or
\* fewer than 2 lows.
C22_TrendOfLatestSwings ==
    (pc = "zigzag") =>
        LET highs == swingAnalysis.highs
            lows == swingAnalysis.lows
            cur == swingAnalysis.current
        IN  IF Len(highs) < 2 \/ Len(lows) < 2
            THEN cur = [trend |-> "neutral", strength |-> 0]
            ELSE LET up == /\ LastOf(highs).price > PrevOf(highs).price
                           /\ LastOf(lows).price > PrevOf(lows).price
                     down == /\ LastOf(highs).price < PrevOf(highs).price
                             /\ LastOf(lows).price < PrevOf(lows).price
                 IN  /\ cur.trend # "neutral"
                     /\ (cur = [trend |-> "uptrend", strength |-> 8]) <=> up
                     /\ (cur = [trend |-> "downtrend", strength |-> 8]) <=> down
                     /\ (cur = [trend |-> "ranging", strength |-> 5]) <=> (~up /\ ~down)

C22_Witness ==
    /\ pc = "zigzag"
    /\ Len(swingAnalysis.highs) = 3
    /\ Len(swingAnalysis.lows) = 3
    /\ swingAnalysis.current = [trend |-> "uptrend", strength |-> 8]
    /\ swingAnalysis.highs[2].price < swingAnalysis.highs[1].price
    /\ swingAnalysis.lows[2].price < swingAnalysis.lows[1].price

----------------------------------------------------------------------------
(* Bars without a close *)

HasClose(point) == point.close # 0

\* C23 as stated: a price bar missing close is skipped by the pipeline: it
\* yields no processed bar and contributes no price, so the processed series
\* consists of the bars that have a close.
C23_Original ==
    (pc = "zigzag") => processedData = SelectSeq(priceData, HasClose)

----------------------------------------------------------------------------
(* Support and resistance levels *)

SwingPoints == AllPoints(swingAnalysis)
SwingClusters == ClusterPoints(SwingPoints, 1, <<>>, <<>>).clusters

\* C24: calculateSupportResistance never forms more clusters than there are
\* swing points, returns at most 8 levels, in order of descending strength,
\* and every level returned is the level of one of the clusters formed (no
\* more levels of a kind than clusters of that kind).
C24_TopLevels ==
    (pc = "ladder") =>
        /\ Len(SwingClusters) <= Len(SwingPoints)
        /\ Len(srLevels) <= 8
        /\ Len(srLevels) <= Len(SwingClusters)
        /\ \A k \in 1..(Len(srLevels) - 1) :
               srLevels[k].strength >= srLevels[k + 1].strength
        /\ \A k \in 1..Len(srLevels) :
               LET same == {j \in 1..Len(srLevels) : srLevels[j] = srLevels[k]}
                   from == {c \in 1..Len(SwingClusters) :
                               srLevels[k] = LevelOf(SwingClusters[c], Len(SwingClusters),
                                                     currentPrice)}
               IN  from # {} /\ Cardinality(same) <= Cardinality(from)

C24_Witness ==
    /\ pc = "ladder"
    /\ Len(SwingPoints) = 10
    /\ Len(SwingClusters) = 9
    /\ Len(srLevels) = 8
    /\ srLevels[1].touches = 2
    /\ srLevels[1].strength > srLevels[8].strength

----------------------------------------------------------------------------
(* Dealer gamma of a chain without negative gamma *)

NoNegativeGamma ==
    \A k \in 1..Len(optionsData) : optionsData[k].gamma >= 0 /\ optionsData[k].oi >= 0

\* C26: for every chain whose contracts all have gamma >= 0 and open
\* interest >= 0, netGamma is <= 0 at every strike and totalGamma is <= 0,
\* so no two adjacent strikes have netGamma of opposite signs and
\* gammaFlipPoint is null.
C26_NeverFlips ==
    (pc = "dealer" /\ dealerMetrics # Null /\ NoNegativeGamma) =>
        LET strikes == dealerMetrics.strikes
        IN  /\ \A i \in 1..Len(strikes) : strikes[i].netGamma <= 0
            /\ dealerMetrics.totalGamma <= 0
            /\ \A i \in 1..(Len(strikes) - 1) :
                   ~(strikes[i].netGamma * strikes[i + 1].netGamma < 0)
            /\ dealerMetrics.gammaFlipPoint = Null

C26_Witness ==
    /\ pc = "dealer"
    /\ dealerMetrics # Null
    /\ NoNegativeGamma
    /\ Len(dealerMetrics.strikes) = 3
    /\ \A i \in 1..3 : dealerMetrics.strikes[i].netGamma < 0
    /\ dealerMetrics.strikes[1].netGamma # dealerMetrics.strikes[2].netGamma
    /\ dealerMetrics.isShortGamma
    /\ dealerMetrics.gammaFlipPoint = Null

----------------------------------------------------------------------------
(* The dealer signal of the prediction *)

\* C27: when dealers are short gamma and there is no flip point, the scorer
\* still compares the spot with the (null) flip point and, the spot being
\* positive, records 'Dealer Short Gamma Above Flip', bullish, weight 2.
C27_ShortGammaWithoutFlip ==
    (/\ pc = "prediction"
     /\ prediction # Null
     /\ predInput.dealerMetrics.isShortGamma
     /\ predInput.dealerMetrics.gammaFlipPoint = Null
     /\ predInput.spy > 0)
        => /\ prediction.signals[1] = Signal("Dealer Short Gamma Above Flip", "bullish", 2)
           /\ prediction.bullishScore >= 2
           /\ \A k \in 2..Len(prediction.signals) :
                  prediction.signals[k].factor # "Dealer Short Gamma Below Flip"

\* no other factor speaks: the prediction is BULLISH with confidence 1
C27_Witness ==
    /\ pc = "prediction"
    /\ prediction # Null
    /\ predInput.dealerMetrics.isShortGamma
    /\ predInput.dealerMetrics.gammaFlipPoint = Null
    /\ predInput.spy > 0
    /\ prediction.signals = <<Signal("Dealer Short Gamma Above Flip", "bullish", 2)>>
    /\ prediction.prediction = "BULLISH"
    /\ prediction.confidence = Frac(2, 2)

DealerFactors ==
    {"Dealer Short Gamma Above Flip", "Dealer Short Gamma Below Flip",
     "Dealer Long Gamma (Dampening)"}

----------------------------------------------------------------------------
(* Positions of the swing points *)

HighIndexes == {swingAnalysis.highs[k].index : k \in 1..Len(swingAnalysis.highs)}
LowIndexes == {swingAnalysis.lows[k].index : k \in 1..Len(swingAnalysis.lows)}

\* at least 3 bars lie between the positions of any two members of S
ThreeApart(S) == \A i, j \in S : i # j => Abs(i - j) >= 3

\* C29: for a series of n bars every swing index lies in [2, n - 3], no index
\* is both a swing high and a swing low, two distinct swing highs (and two
\* distinct swing lows) are at least 3 bars apart, and for n < 5 there are no
\* swings at all.
C29_SwingPositions ==
    (pc = "structure") =>
        LET n == Len(processedData)
        IN  /\ \A i \in HighIndexes \cup LowIndexes : 2 <= i /\ i <= n - 3
            /\ HighIndexes \cap LowIndexes = {}
            /\ Cardinality(HighIndexes) = Len(swingAnalysis.highs)
            /\ Cardinality(LowIndexes) = Len(swingAnalysis.lows)
            /\ ThreeApart(HighIndexes)
            /\ ThreeApart(LowIndexes)
            /\ n < 5 => (swingAnalysis.highs = <<>> /\ swingAnalysis.lows = <<>>)

\* swing highs at the first and last admissible bars, 3 apart, and two swing
\* lows 3 apart
C29_Witness ==
    /\ pc = "structure"
    /\ Len(processedData) = 9
    /\ {2, 5} \subseteq HighIndexes
    /\ {3, 6} = LowIndexes

----------------------------------------------------------------------------
(* The value area around the point of control *)

DistinctCloses == {profileData[k].close : k \in 1..Len(profileData)}

PositiveVolumes == \A k \in 1..Len(profileData) : profileData[k].volume > 0

\* the bins by descending volume, bins of equal volume in price order
ByVolume == SortDesc(volumeProfile.profile, BinVolume)

BinLevels(bins) == [k \in 1..Len(bins) |-> bins[k].priceLevel]

\* C30: for a series with at least 2 distinct closes and positive volumes,
\* vah and val are finite and val <= poc.priceLevel <= vah: the value area
\* is a leading part of the bins by descending volume whose first bin is the
\* POC bin and whose volume is at least 70% of the summed bin volume.
C30_ValueAreaHoldsPoc ==
    (pc = "volume" /\ Cardinality(DistinctCloses) >= 2 /\ PositiveVolumes) =>
        /\ volumeProfile.vah.kind = "num"
        /\ volumeProfile.val.kind = "num"
        /\ volumeProfile.val.v <= volumeProfile.poc.priceLevel
        /\ volumeProfile.poc.priceLevel <= volumeProfile.vah.v
        /\ ByVolume[1] = volumeProfile.poc
        /\ \E m \in 1..numBins :
               LET area == SubSeq(ByVolume, 1, m)
               IN  /\ 10 * SumBins(area, 1) >= 7 * SumBins(volumeProfile.profile, 1)
                   /\ 10 * SumBins(SubSeq(area, 1, m - 1), 1)
                          < 7 * SumBins(volumeProfile.profile, 1)
                   /\ volumeProfile.vah = Num(MaxOf(BinLevels(area)))
                   /\ volumeProfile.val = Num(MinOf(BinLevels(area)))

\* two bins hold volume, the upper one more: the value area takes both and
\* the POC is its upper end
C30_Witness ==
    /\ pc = "volume"
    /\ Cardinality(DistinctCloses) = 3
    /\ PositiveVolumes
    /\ volumeProfile.val.kind = "num"
    /\ volumeProfile.vah.kind = "num"
    /\ volumeProfile.val.v < volumeProfile.vah.v
    /\ volumeProfile.poc.priceLevel = volumeProfile.vah.v
    /\ volumeProfile.poc.volume = 2

====
